---------------------------- MODULE Spec2Model ----------------------------
(***************************************************************************)
(* A model of sgjobutils: the money parser (money.py), the text heuristics *)
(* (common.py), the skill ranking (jobsbank.py) and the source             *)
(* transformers (transform.py).                                            *)
(*                                                                         *)
(* Python strings are sequences of one-character strings, indexed from 0   *)
(* through the operators below exactly as the code indexes them.  A Python *)
(* float that is a multiple of one half is held as the integer twice its   *)
(* value (PyHalf); an exception is a result record with a non-empty exc.   *)
(*                                                                         *)
(* fn, arg, pc and ret are the call being made: arg is the value of its    *)
(* arguments when it was made.  objects holds the mutable objects that the *)
(* caller and the code share (argument lists and dicts, class attributes)  *)
(* as they are now, rows the OrderedDict objects created so far, and seen  *)
(* the first result of each record transformed in a session of calls.      *)
(***************************************************************************)
EXTENDS Integers, Sequences, FiniteSets, TLC

VARIABLES fn, arg, pc, ret, objects, rows, seen

vars == <<fn, arg, pc, ret, objects, rows, seen>>

-----------------------------------------------------------------------------
(* Bounds of the input sets *)

MaxTokenParts == 4

\* most digits in a money token (amounts stay within TLC's 32-bit integers)
MaxDigits == 5

MaxDescParts == 3

MaxShiftTokens == 5

MaxQualifications == 3

MaxPositions == 2

MaxSkills == 6

MaxCodeLen == 5

MaxRanked == 3

MaxSalaryTokens == 7

MaxEducationTokens == 5

-----------------------------------------------------------------------------
(* Python str primitives *)

DigitChars == {"0", "1", "2", "3", "4", "5", "6", "7", "8", "9"}

SpaceChars == {" ", "\t", "\n"}

UpperToLower ==
    [c \in {"A", "B", "C", "D", "E", "F", "G", "H", "I", "J", "K", "L", "M",
            "N", "O", "P", "Q", "R", "S", "T", "U", "V", "W", "X", "Y", "Z"} |->
       CASE c = "A" -> "a" [] c = "B" -> "b" [] c = "C" -> "c" [] c = "D" -> "d"
         [] c = "E" -> "e" [] c = "F" -> "f" [] c = "G" -> "g" [] c = "H" -> "h"
         [] c = "I" -> "i" [] c = "J" -> "j" [] c = "K" -> "k" [] c = "L" -> "l"
         [] c = "M" -> "m" [] c = "N" -> "n" [] c = "O" -> "o" [] c = "P" -> "p"
         [] c = "Q" -> "q" [] c = "R" -> "r" [] c = "S" -> "s" [] c = "T" -> "t"
         [] c = "U" -> "u" [] c = "V" -> "v" [] c = "W" -> "w" [] c = "X" -> "x"
         [] c = "Y" -> "y" [] c = "Z" -> "z"]

LowerChar(c) == IF c \in DOMAIN UpperToLower THEN UpperToLower[c] ELSE c

\* str.lower()
StrLower(s) == [i \in 1..Len(s) |-> LowerChar(s[i])]

\* str.isdigit(): non-empty and every character a digit
IsDigitStr(s) == Len(s) > 0 /\ \A i \in 1..Len(s) : s[i] \in DigitChars

\* s[a:b] for 0 <= a, 0 <= b (Python clamps both ends to len(s))
Slice(s, a, b) ==
    LET hi == IF b > Len(s) THEN Len(s) ELSE b
    IN  IF a >= hi THEN <<>> ELSE SubSeq(s, a + 1, hi)

\* the 0-based positions at which sub occurs in s
Occurrences(s, sub) ==
    {i \in 0..(Len(s) - Len(sub)) : SubSeq(s, i + 1, i + Len(sub)) = sub}

SetMin(S) == CHOOSE x \in S : \A y \in S : x <= y

SetMax(S) == CHOOSE x \in S : \A y \in S : x >= y

\* str.find(sub): lowest position, -1 when absent
StrFind(s, sub) ==
    IF Occurrences(s, sub) = {} THEN -1 ELSE SetMin(Occurrences(s, sub))

\* str.rfind(sub): highest position, -1 when absent
StrRFind(s, sub) ==
    IF Occurrences(s, sub) = {} THEN -1 ELSE SetMax(Occurrences(s, sub))

\* sub in s
StrIn(sub, s) == Occurrences(s, sub) # {}

\* str.endswith(suffix)
EndsWith(s, suffix) ==
    /\ Len(suffix) <= Len(s)
    /\ SubSeq(s, Len(s) - Len(suffix) + 1, Len(s)) = suffix

\* str.strip()
StrStrip(s) ==
    LET keep == {i \in 1..Len(s) : s[i] \notin SpaceChars}
    IN  IF keep = {} THEN <<>> ELSE SubSeq(s, SetMin(keep), SetMax(keep))

\* str.replace(c, "") for a single character c
RemoveChar(s, c) == SelectSeq(s, LAMBDA x : x # c)

\* str.split(c) for a single character c: always at least one part
RECURSIVE SplitOn(_, _)
SplitOn(s, c) ==
    LET at == {i \in 1..Len(s) : s[i] = c}
    IN  IF at = {} THEN <<s>>
        ELSE <<SubSeq(s, 1, SetMin(at) - 1)>>
               \o SplitOn(SubSeq(s, SetMin(at) + 1, Len(s)), c)

\* str.split(): split on runs of whitespace, no empty parts
RECURSIVE SplitWs(_)
SplitWs(s) ==
    LET word  == {i \in 1..Len(s) : s[i] \notin SpaceChars}
        first == SetMin(word)
        gaps  == {i \in first..Len(s) : s[i] \in SpaceChars}
        stop  == IF gaps = {} THEN Len(s) + 1 ELSE SetMin(gaps)
    IN  IF word = {} THEN <<>>
        ELSE <<SubSeq(s, first, stop - 1)>> \o SplitWs(SubSeq(s, stop, Len(s)))

DigitValue(c) ==
    CASE c = "0" -> 0 [] c = "1" -> 1 [] c = "2" -> 2 [] c = "3" -> 3
      [] c = "4" -> 4 [] c = "5" -> 5 [] c = "6" -> 6 [] c = "7" -> 7
      [] c = "8" -> 8 [] c = "9" -> 9

\* int(s) for a string of digits
RECURSIVE DigitsToInt(_)
DigitsToInt(s) ==
    IF s = <<>> THEN 0
    ELSE 10 * DigitsToInt(SubSeq(s, 1, Len(s) - 1)) + DigitValue(s[Len(s)])

RECURSIVE Pow10(_)
Pow10(n) == IF n = 0 THEN 1 ELSE 10 * Pow10(n - 1)

\* the concatenation of a sequence of strings
RECURSIVE Flatten(_)
Flatten(parts) ==
    IF parts = <<>> THEN <<>> ELSE Head(parts) \o Flatten(Tail(parts))

\* every sequence of at most n elements of S
SeqsUpTo(S, n) == UNION {[1..k -> S] : k \in 0..n}

-----------------------------------------------------------------------------
(* Results of a call: a returned value, or a raised exception *)

Returned(v) == [exc |-> "", val |-> v]

Raised(e) == [exc |-> e, val |-> <<>>]

NoRet == [exc |-> "pending", val |-> <<>>]

-----------------------------------------------------------------------------
(* money.py *)

\* filter_money without its floor of 100: every amount passes
filter_money_unfiltered(amount) == amount

filter_money(amount) == IF amount < 100 THEN -1 ELSE amount

comma_removal(token) == RemoveChar(token, ",")

\* int(float(stripped) * mult) for stripped made of digits and at most one "."
DecimalTimes(stripped, mult) ==
    LET parts == SplitOn(stripped, ".")
        whole == parts[1]
        frac  == IF Len(parts) = 2 THEN parts[2] ELSE <<>>
    IN  (DigitsToInt(whole \o frac) * mult) \div Pow10(Len(frac))

\* the money_string and kmultiply that lines 40-70 extract from the word
MoneyString(word) ==
    LET pos == StrRFind(word, <<"$">>)
        numeric(c) == c \in DigitChars \/ c = "," \/ c = "."
    IN  IF pos < 0
        THEN LET stops == {i \in 0..(Len(word) - 2) : ~numeric(word[i + 1])}
                 start_pos == IF stops = {} THEN 0 ELSE SetMax(stops) + 1
             IN  [money_string |-> Slice(word, start_pos, Len(word) - 1),
                  kmultiply |-> TRUE]
        ELSE LET stops == {i \in (pos + 1)..(Len(word) - 1) : ~numeric(word[i + 1])}
                 end_pos == IF stops = {} THEN Len(word) ELSE SetMin(stops)
             IN  [money_string |-> Slice(word, pos + 1, end_pos),
                  kmultiply |-> end_pos < Len(word) /\ word[end_pos + 1] = "k"]

\* Returns a result record.  The "return False" of line 45 is the value 0:
\* bool is an int in Python and every caller uses the value numerically.
get_money_from_single_word(word0) ==
    LET word == StrStrip(StrLower(word0))
        pos  == StrRFind(word, <<"$">>)
        ms   == MoneyString(word)
        stripped == comma_removal(ms.money_string)
    IN  IF pos = Len(word) - 1 THEN Returned(0)
        ELSE IF pos < 0 /\ ~EndsWith(word, <<"k">>) THEN Returned(-1)
        ELSE IF ~IsDigitStr(RemoveChar(stripped, ".")) THEN Returned(-1)
        ELSE IF Len(SplitOn(stripped, ".")) > 2 THEN Raised("ValueError")
        ELSE Returned(DecimalTimes(stripped, IF ms.kmultiply THEN 1000 ELSE 1))

get_numeric(token0) ==
    LET token == StrLower(token0)
        body  == SubSeq(token, 1, Len(token) - 1)
    IN  IF EndsWith(token, <<"k">>)
        THEN IF IsDigitStr(body) THEN DigitsToInt(body) * 1000 ELSE -1
        ELSE IF IsDigitStr(token) THEN DigitsToInt(token) ELSE -1

\* final_amt of get_money before the filter (a result record)
GetMoneyAmount(token) ==
    LET tokens == SplitOn(token, "-")
        first  == get_money_from_single_word(tokens[1])
        second == get_money_from_single_word(tokens[2])
    IN  IF Len(tokens) = 2
        THEN IF first.exc # "" THEN first
             ELSE IF second.exc # "" THEN second
             ELSE IF first.val > 0 /\ second.val > 0
                  THEN Returned((first.val + second.val) \div 2)
             ELSE IF first.val > 0
                  THEN IF get_numeric(tokens[2]) > 0
                       THEN Returned((first.val + get_numeric(tokens[2])) \div 2)
                       ELSE Returned(-1)
             ELSE IF second.val > 0
                  THEN IF get_numeric(tokens[1]) > 0
                       THEN Returned((get_numeric(tokens[1]) + second.val) \div 2)
                       ELSE Returned(-1)
             ELSE Returned(-1)
        ELSE get_money_from_single_word(token)

get_money(token) ==
    LET final_amt == GetMoneyAmount(token)
    IN  IF final_amt.exc # "" THEN final_amt
        ELSE Returned(filter_money(final_amt.val))


-----------------------------------------------------------------------------
(* Python values.  A number is the rational num/den: den 1 for an int,   *)
(* den 2 for the float produced by a division by 2.  A str that the code    *)
(* only passes along is a TLA+ string (PyStr); one whose characters it      *)
(* reads is a sequence of characters (PyText).                              *)

PyNone == [t |-> "None"]

PyInt(n) == [t |-> "int", num |-> n, den |-> 1]

PyHalf(n) == [t |-> "float", num |-> n, den |-> 2]

PyStr(s) == [t |-> "str", s |-> s]

PyText(chars) == [t |-> "str", chars |-> chars]

PyList(items) == [t |-> "list", items |-> items]

IsNumber(v) == v.t \in {"int", "float"}

NumEq(a, b) == a.num * b.den = b.num * a.den

NumGe(a, b) == a.num * b.den >= b.num * a.den

NumGt(a, b) == a.num * b.den > b.num * a.den

-----------------------------------------------------------------------------
(* common.py *)

PRIMARY == "primary"
SECONDARY == "secondary"
PRIMARY_SECONDARY == "primary/secondary"
ITE == "ITE"
DIPLOMA == "diploma"
DEGREE == "degree"
NO_EDUCATION == "none"

ENTRY == "entry"
MANAGER == "manager"
PROFESSIONAL == "professional"
EXECUTIVE == "executive"
NO_EXPERIENCE == "none"

\* x in list
InList(x, list) == \E i \in 1..Len(list) : list[i] = x

complements ==
    <<<<"r", "e", "s", "p", "o", "n", "s", "i", "b", "i", "l", "i", "t">>, <<"d", "u", "t", "i", "e", "s">>, <<"r", "o", "l", "e">>, <<"c", "o", "n", "t", "a", "c", "t">>, <<"f", "u", "n", "c", "t", "i", "o", "n">>,
      <<"r", "e", "q", "u", "i", "r", "e", "m", "e", "n", "t">>, <<"e", "m", "p", "h", "a", "s", "i", "s">>, <<"p", "u", "r", "p", "o", "s", "e">>>>

\* (the variant below scans through the token three after the anchor token)
get_education_anchor_three_after(description_tokens, anchor) ==
    LET n    == Len(description_tokens)
        hits == {i \in 0..(n - 1) : StrIn(anchor, description_tokens[i + 1])}
        i    == SetMin(hits)
        left_bound  == IF i - 2 > 0 THEN i - 2 ELSE 0
        right_bound == IF i + 4 <= n THEN i + 4 ELSE n
        count == Cardinality({j \in left_bound..(right_bound - 1) :
                     \E c \in 1..Len(complements) :
                         StrIn(complements[c], description_tokens[j + 1])})
    IN  IF hits = {} THEN FALSE ELSE count = 0

\* tokens are indexed from 0 as in the code: token i is description_tokens[i + 1]
get_education_anchor(description_tokens, anchor) ==
    LET n    == Len(description_tokens)
        hits == {i \in 0..(n - 1) : StrIn(anchor, description_tokens[i + 1])}
        i    == SetMin(hits)
        left_bound  == IF i - 2 > 0 THEN i - 2 ELSE 0
        right_bound == IF i + 3 <= n THEN i + 3 ELSE n
        count == Cardinality({j \in left_bound..(right_bound - 1) :
                     \E c \in 1..Len(complements) :
                         StrIn(complements[c], description_tokens[j + 1])})
    IN  IF hits = {} THEN FALSE ELSE count = 0

get_education(description) ==
    LET description_lower  == StrLower(description)
        description_tokens == SplitWs(description_lower)
    IN  (IF get_education_anchor(description_tokens, <<"p", "r", "i", "m", "a", "r", "y">>)
            THEN <<PRIMARY>> ELSE <<>>)
        \o (IF get_education_anchor(description_tokens, <<"s", "e", "c", "o", "n", "d", "a", "r", "y">>)
            THEN <<SECONDARY>> ELSE <<>>)
        \o (IF StrIn(<<"I", "T", "E">>, description) \/ StrIn(<<"N", "I", "T", "E", "C">>, description)
            THEN <<ITE>> ELSE <<>>)
        \o (IF StrIn(<<"d", "i", "p", "l", "o", "m", "a">>, description_lower) THEN <<DIPLOMA>> ELSE <<>>)
        \o (IF StrIn(<<"d", "e", "g", "r", "e", "e">>, description_lower)
               \/ StrIn(<<"c", "o", "l", "l", "e", "g", "e">>, description_lower)
            THEN <<DEGREE>> ELSE <<>>)

get_highest_qualification(qualifications) ==
    IF qualifications = <<>> THEN NO_EDUCATION
    ELSE IF InList(DEGREE, qualifications) THEN DEGREE
    ELSE IF InList(DIPLOMA, qualifications) THEN DIPLOMA
    ELSE IF InList(ITE, qualifications) THEN ITE
    ELSE IF InList(PRIMARY_SECONDARY, qualifications) THEN PRIMARY_SECONDARY
    ELSE IF InList(SECONDARY, qualifications) THEN SECONDARY
    ELSE IF InList(PRIMARY, qualifications) THEN PRIMARY
    ELSE NO_EDUCATION

\* get_lowest_qualification with "primary" tested before "primary/secondary"
get_lowest_qualification_primary_first(qualifications) ==
    IF qualifications = <<>> THEN NO_EDUCATION
    ELSE IF InList(PRIMARY, qualifications) THEN PRIMARY
    ELSE IF InList(PRIMARY_SECONDARY, qualifications) THEN PRIMARY_SECONDARY
    ELSE IF InList(SECONDARY, qualifications) THEN SECONDARY
    ELSE IF InList(ITE, qualifications) THEN ITE
    ELSE IF InList(DIPLOMA, qualifications) THEN DIPLOMA
    ELSE IF InList(DEGREE, qualifications) THEN DEGREE
    ELSE NO_EDUCATION

get_lowest_qualification(qualifications) ==
    IF qualifications = <<>> THEN NO_EDUCATION
    ELSE IF InList(PRIMARY_SECONDARY, qualifications) THEN PRIMARY_SECONDARY
    ELSE IF InList(PRIMARY, qualifications) THEN PRIMARY
    ELSE IF InList(SECONDARY, qualifications) THEN SECONDARY
    ELSE IF InList(ITE, qualifications) THEN ITE
    ELSE IF InList(DIPLOMA, qualifications) THEN DIPLOMA
    ELSE IF InList(DEGREE, qualifications) THEN DEGREE
    ELSE NO_EDUCATION

\* strings.index(num_string) is 0-based; nums[index] is element index + 1 here
num_from_string(num_string) ==
    LET nums    == <<0, 1, 2, 3, 4, 5, 6, 7, 8, 9>>
        strings == <<<<"o", "n", "e">>, <<"t", "w", "o">>, <<"t", "h", "r", "e", "e">>, <<"f", "o", "u", "r">>, <<"f", "i", "v", "e">>, <<"s", "i", "x">>,
                     <<"s", "e", "v", "e", "n">>, <<"e", "i", "g", "h", "t">>, <<"n", "i", "n", "e">>>>
        found   == {i \in 0..(Len(strings) - 1) : strings[i + 1] = num_string}
        index   == SetMin(found)
    IN  IF found = {} THEN 0 ELSE nums[index + 1]

\* "not levels": None, an empty list or an empty str
Falsy(levels) ==
    \/ levels.t = "None"
    \/ levels.t = "list" /\ levels.items = <<>>
    \/ levels.t = "str" /\ levels.s = ""

\* "x in levels": membership in a list; in a str the substring test, which
\* among the level names is equality (no level name contains another)
PyIn(x, levels) ==
    IF levels.t = "list" THEN InList(x, levels.items) ELSE x = levels.s

get_minimum_experience_level(levels) ==
    IF Falsy(levels) THEN NO_EXPERIENCE
    ELSE IF PyIn(ENTRY, levels) THEN ENTRY
    ELSE IF PyIn(MANAGER, levels) THEN MANAGER
    ELSE IF PyIn(PROFESSIONAL, levels) THEN PROFESSIONAL
    ELSE IF PyIn(EXECUTIVE, levels) THEN EXECUTIVE
    ELSE NO_EXPERIENCE

\* the nested helper of get_minimum_years_experience
get_last_space_from_pos(description_lower, start_pos) ==
    LET spaces == {j \in 0..(start_pos - 1) : description_lower[j + 1] \in SpaceChars}
    IN  IF spaces = {} THEN 0 ELSE SetMax(spaces) + 1

\* the quantity string of lines 203-209, for an anchor found at pos > 0
QuantityString(description, pos) ==
    LET description_lower == StrLower(description)
        prev     == description_lower[pos]
        last_pos == get_last_space_from_pos(description_lower, pos - 1)
    IN  IF prev \in SpaceChars
        THEN Slice(description, last_pos, pos - 1)
        ELSE Slice(description, last_pos, pos)

\* the mean of line 222 with a floor division
RangeMean_truncated(a, b) == PyInt((a + b) \div 2)

\* the mean of line 222
RangeMean(a, b) == PyHalf(a + b)

get_minimum_years_experience(description) ==
    LET description_lower == StrLower(description)
        pos1  == StrFind(description_lower, <<"y", "e", "a", "r", " ", "e", "x", "p", "e", "r", "i", "e", "n", "c", "e">>)
        pos   == IF pos1 < 0 THEN StrFind(description_lower, <<"y", "e", "a", "r", "s", " ", "e", "x", "p", "e", "r", "i", "e", "n", "c", "e">>)
                 ELSE pos1
        num   == QuantityString(description, pos)
        parts == SplitOn(num, "-")
    IN  IF pos <= 0 THEN PyInt(0)
        ELSE IF Len(num) = 1
             THEN IF IsDigitStr(num) THEN PyInt(DigitsToInt(num)) ELSE PyInt(1)
        ELSE IF StrIn(<<"-">>, num)
             THEN IF Len(parts) = 2 /\ IsDigitStr(parts[1]) /\ IsDigitStr(parts[2])
                  THEN RangeMean(DigitsToInt(parts[1]), DigitsToInt(parts[2]))
                  ELSE PyInt(1)
        ELSE PyInt(num_from_string(num))

fuzzy_anchors ==
    <<<<"s", "h", "i", "f", "t", "s">>, <<"r", "o", "t", "a", "t">>, <<"w", "o", "r", "k">>, <<"t", "i", "m", "e">>, <<"c", "l", "o", "s", "i", "n", "g">>, <<"n", "i", "g", "h", "t">>,
      <<"m", "o", "r", "n", "i", "n", "g">>, <<"d", "u", "t", "i", "e", "s">>, <<"s", "t", "a", "r", "t">>, <<"e", "n", "d">>, <<"b", "a", "s", "e", "d">>, <<"t", "h", "r", "o", "u", "g", "h", "o", "u", "t">>,
      <<"t", "e", "a", "m">>, <<"r", "o", "s", "t", "e", "r">>, <<"t", "r", "a", "n", "s", "p", "o", "r", "t">>, <<"t", "i", "m", "i", "n", "g">>, <<"a", "l", "l", "o", "w", "a", "n", "c", "e">>, <<"h", "o", "u", "r">>,
      <<"e", "a", "c", "h">>, <<"s", "p", "l", "i", "t">>, <<"d", "e", "p", "e", "n", "d", "i", "n", "g">>>>

end_anchors == <<<<"a", "m">>, <<"p", "m">>>>

\* a right_bound one token further out: the window would reach 4 tokens after
ShiftRightBound_four_after(i, n) == IF i + 5 <= n THEN i + 5 ELSE n

\* right_bound of the window of the "shift" token at index i among n tokens
ShiftRightBound(i, n) == IF i + 4 <= n THEN i + 4 ELSE n

\* lines 251-262: an indicator in the window of the token at index i
ShiftWindowHit(tokens, i) ==
    LET left_bound  == IF i - 3 > 0 THEN i - 3 ELSE 0
        right_bound == ShiftRightBound(i, Len(tokens))
    IN  \E j \in left_bound..(right_bound - 1) :
           \/ \E a \in 1..Len(fuzzy_anchors) : StrIn(fuzzy_anchors[a], tokens[j + 1])
           \/ \E a \in 1..Len(end_anchors) : EndsWith(tokens[j + 1], end_anchors[a])

\* the loop returns True at the first "shift" token whose window has an
\* indicator or that is at least the second such token
is_shift(description) ==
    LET tokens == SplitWs(StrLower(description))
        shifts == {i \in 0..(Len(tokens) - 1) : StrIn(<<"s", "h", "i", "f", "t">>, tokens[i + 1])}
        count(i) == Cardinality({k \in shifts : k <= i})
    IN  \E i \in shifts : ShiftWindowHit(tokens, i) \/ count(i) >= 2

\* in_list of is_engineering
in_list(description, l) == \E t \in 1..Len(l) : StrIn(l[t], description)

is_engineering(title0, description0) ==
    LET requisites == <<<<"e", "n", "g", "i", "n", "e">>, <<"t", "e", "c", "h", "n", "i", "c">>, <<"m", "e", "c", "h", "a", "n", "i", "c">>, <<"c", "h", "e", "m", "i", "c", "a", "l">>,
                        <<"a", "e", "r", "o">>, <<"e", "l", "e", "c", "t", "r", "o", "n", "i", "c">>, <<"l", "o", "g", "i", "s", "t", "i", "c">>>>
        title_requisites == requisites \o <<<<"p", "r", "o", "c", "e", "s", "s">>>>
        anti_requisites == <<<<"s", "o", "f", "t", "w", "a", "r", "e", " ", "e", "n", "g", "i", "n", "e">>>>
        title == StrLower(title0)
        description == StrLower(description0)
    IN  IF in_list(title, anti_requisites) THEN FALSE
        ELSE IF in_list(description, anti_requisites) THEN FALSE
        ELSE IF in_list(title, title_requisites) THEN TRUE
        ELSE in_list(description, requisites)

LowerLetters ==
    {"a", "b", "c", "d", "e", "f", "g", "h", "i", "j", "k", "l", "m",
     "n", "o", "p", "q", "r", "s", "t", "u", "v", "w", "x", "y", "z"}

PunctuationChars ==
    {"!", "\"", "#", "$", "%", "&", "'", "(", ")", "*", "+", ",", "-", ".",
     "/", ":", ";", "<", "=", ">", "?", "@", "[", "\\", "]", "^", "_",
     "{", "|", "}", "~"}

\* string.printable (less the backquote, which no text of the model holds)
PRINTABLE ==
    DigitChars \cup LowerLetters \cup DOMAIN UpperToLower \cup PunctuationChars
        \cup SpaceChars

FilterPrintable(s) == SelectSeq(s, LAMBDA x : x \in PRINTABLE)

clean_non_ascii(text) ==
    IF text = <<>> THEN text ELSE StrStrip(FilterPrintable(text))

\* re.sub('<.*?>', ' ', html): each "<" with a ">" later on its line, scanning
\* left to right, is replaced up to the first such ">" by one space
RECURSIVE SubTags(_)
SubTags(html) ==
    LET closes == {j \in 2..Len(html) : html[j] = ">"}
        close  == SetMin(closes)
    IN  IF html = <<>> THEN <<>>
        ELSE IF Head(html) = "<" /\ closes # {}
                /\ \A j \in 2..close : html[j] # "\n"
             THEN <<" ">> \o SubTags(SubSeq(html, close + 1, Len(html)))
        ELSE <<Head(html)>> \o SubTags(Tail(html))

\* " ".join(words)
RECURSIVE JoinSp(_)
JoinSp(words) ==
    IF words = <<>> THEN <<>>
    ELSE IF Len(words) = 1 THEN words[1]
    ELSE words[1] \o <<" ">> \o JoinSp(Tail(words))

clean_html(html) ==
    IF html = <<>> THEN html ELSE JoinSp(SplitWs(SubTags(html)))

\* get_salary, lines 271-313.  MAGIC_WINDOW_SIZE = 5

\* lines 290-291: the window of token i is range(left_bound, right_bound)
SalaryLeftBound(i) == IF i - 5 > 0 THEN i - 5 ELSE 0

\* (the variant below ends the window four tokens after token i)
SalaryRightBound_four_after(i, n) == IF i + 5 <= n THEN i + 5 ELSE n

SalaryRightBound(i, n) == IF i + 1 + 5 <= n THEN i + 1 + 5 ELSE n

\* lines 293-306 for the 'salary' token i: the amount appended to amounts (a
\* result record; -1: nothing appended), or the exception of the first
\* get_money call that raises.  money[j + 1] is get_money(tokens[j])
SalaryAmountAt(money, i) ==
    LET left_bound  == SalaryLeftBound(i)
        right_bound == SalaryRightBound(i, Len(money))
        stops == {j \in left_bound..(right_bound - 1) :
                     money[j + 1].exc # "" \/ money[j + 1].val >= 0}
        j     == SetMin(stops)
        amt   == money[j + 1]
        amt2  == IF j + 2 < right_bound THEN money[j + 3] ELSE Returned(-1)
    IN  IF stops = {} THEN Returned(-1)
        ELSE IF amt.exc # "" THEN amt
        ELSE IF amt2.exc # "" THEN amt2
        ELSE IF amt2.val < 0 THEN amt
        ELSE Returned((amt.val + amt2.val) \div 2)

\* line 309: [amt for amt in amounts if amt >= minimum]
RECURSIVE AtLeast(_, _)
AtLeast(amounts, minimum) ==
    IF amounts = <<>> THEN <<>>
    ELSE (IF Head(amounts) >= minimum THEN <<Head(amounts)>> ELSE <<>>)
            \o AtLeast(Tail(amounts), minimum)

\* line 313: sum(amounts)
RECURSIVE SumOf(_)
SumOf(amounts) ==
    IF amounts = <<>> THEN 0 ELSE Head(amounts) + SumOf(Tail(amounts))

\* amounts after the tokens before token k, when no get_money call raised
RECURSIVE SalaryAmounts(_, _, _)
SalaryAmounts(tokens, money, k) ==
    IF k = 0 THEN <<>>
    ELSE LET before == SalaryAmounts(tokens, money, k - 1)
             amt    == SalaryAmountAt(money, k - 1)
         IN  IF StrIn(<<"s", "a", "l", "a", "r", "y">>, tokens[k]) /\ amt.val >= 0
             THEN Append(before, amt.val) ELSE before

\* lines 286-313, with money[j + 1] = get_money(tokens[j])
SalaryFromTokens(tokens, money, minimum) ==
    LET raising == {i \in 0..(Len(tokens) - 1) :
                       /\ StrIn(<<"s", "a", "l", "a", "r", "y">>, tokens[i + 1])
                       /\ SalaryAmountAt(money, i).exc # ""}
        amounts == AtLeast(SalaryAmounts(tokens, money, Len(tokens)), minimum)
    IN  IF raising # {} THEN SalaryAmountAt(money, SetMin(raising))
        ELSE IF amounts = <<>> THEN Returned(0)
        ELSE Returned(SumOf(amounts) \div Len(amounts))

\* the description is split once, and get_money(tokens[j]) has the same value
\* each time the loops call it
get_salary(description, minimum) ==
    CHOOSE result \in
        {SalaryFromTokens(tokens, [j \in 1..Len(tokens) |-> get_money(tokens[j])],
                          minimum) :
            tokens \in {SplitWs(StrLower(description))}} : TRUE

-----------------------------------------------------------------------------
(* jobsbank.py *)

\* sorted(..., reverse=True) is stable: x goes after every element whose
\* confidence is at least its own
\* (the variant below sorts in ascending order)
InsertDesc_ascending(sorted, x) ==
    LET higher == {j \in 1..Len(sorted) :
                      sorted[j].confidence.num * x.confidence.den
                         > x.confidence.num * sorted[j].confidence.den}
        at     == IF higher = {} THEN Len(sorted) + 1 ELSE SetMin(higher)
    IN  SubSeq(sorted, 1, at - 1) \o <<x>> \o SubSeq(sorted, at, Len(sorted))

InsertDesc(sorted, x) ==
    LET lower == {j \in 1..Len(sorted) :
                     sorted[j].confidence.num * x.confidence.den
                        < x.confidence.num * sorted[j].confidence.den}
        at    == IF lower = {} THEN Len(sorted) + 1 ELSE SetMin(lower)
    IN  SubSeq(sorted, 1, at - 1) \o <<x>> \o SubSeq(sorted, at, Len(sorted))

RECURSIVE SortedDesc(_)
SortedDesc(list) ==
    IF list = <<>> THEN <<>>
    ELSE InsertDesc(SortedDesc(SubSeq(list, 1, Len(list) - 1)), list[Len(list)])

\* skill_count is indexed from 0 in the code: skill_count[id] is element id + 1
sort_skills(skills, skill_count) ==
    LET plus_one   == [i \in 1..Len(skill_count) |-> skill_count[i] + 1]
        new_skills == [i \in 1..Len(skills) |->
                         [id |-> skills[i].id,
                          skill |-> skills[i].skill,
                          confidence |-> [num |-> skills[i].confidence,
                                          den |-> plus_one[skills[i].id + 1]]]]
    IN  IF \E i \in 1..Len(skills) : skills[i].id >= Len(skill_count)
        THEN Raised("IndexError")
        ELSE Returned(SortedDesc(new_skills))

get_top_skills(skills, n) ==
    IF n < 0 THEN <<>>
    ELSE IF n > Len(skills) THEN skills
    ELSE SubSeq(skills, 1, n)

\* The caller's skill_count list after sort_skills: line 12 binds the local
\* name to a new list and leaves the caller's list as it was.
\* (the variant below adds 1 to the caller's list in place)
CallerSkillCount_incremented(skill_count) ==
    [i \in 1..Len(skill_count) |-> skill_count[i] + 1]

CallerSkillCount(skill_count) == skill_count

-----------------------------------------------------------------------------
(* transform.py *)

\* HEADERS with salary_min listed before salary_max
HEADERS_min_before_max ==
    <<"source_id", "title", "uen", "company_name", "minimum_qualification",
      "experience_level", "minimum_years_experience", "num_vacancies",
      "salary_min", "salary_max", "salary_avg", "ssoc", "date_posted",
      "date_expire", "date_last_seen", "source", "description",
      "is_engineering", "is_employment_agency", "is_gig", "top_skill_1",
      "top_skill_2", "top_skill_3", "top_skill_4", "top_skill_5">>

HEADERS ==
    <<"source_id", "title", "uen", "company_name", "minimum_qualification",
      "experience_level", "minimum_years_experience", "num_vacancies",
      "salary_max", "salary_min", "salary_avg", "ssoc", "date_posted",
      "date_expire", "date_last_seen", "source", "description",
      "is_engineering", "is_employment_agency", "is_gig", "top_skill_1",
      "top_skill_2", "top_skill_3", "top_skill_4", "top_skill_5">>

Item(key, value) == [key |-> key, value |-> value]

\* An OrderedDict is the sequence of its items in insertion order.  The
\* assignments row[key] = value of items, made in order: a key of the row
\* keeps its place and takes the last value assigned to it; a key the row
\* lacks is appended where it is first assigned.
SetItems(row, items) ==
    LET assigned(key) == {j \in 1..Len(items) : items[j].key = key}
        had(key)      == \E i \in 1..Len(row) : row[i].key = key
        kept   == [i \in 1..Len(row) |->
                     IF assigned(row[i].key) = {} THEN row[i]
                     ELSE items[SetMax(assigned(row[i].key))]]
        fresh  == {j \in 1..Len(items) :
                     ~had(items[j].key) /\ j = SetMin(assigned(items[j].key))}
        nth(n) == CHOOSE j \in fresh : Cardinality({k \in fresh : k < j}) = n - 1
        added  == [n \in 1..Cardinality(fresh) |->
                     items[SetMax(assigned(items[nth(n)].key))]]
    IN  kept \o added

\* row[key] = value
SetItem(row, key, value) == SetItems(row, <<Item(key, value)>>)

\* row[key] of an OrderedDict that has the key
GetItem(row, key) == row[CHOOSE i \in 1..Len(row) : row[i].key = key].value

Keys(row) == [i \in 1..Len(row) |-> row[i].key]

\* dict.get(key, default) of a raw record
Get(d, key, default) == IF key \in DOMAIN d THEN d[key] ELSE default

\* every class inherits HEADERS and init_empty_row from Transformer
init_empty_row(cls) ==
    LET row == SetItems(<<>>, [i \in 1..Len(HEADERS) |-> Item(HEADERS[i], PyNone)])
    IN  SetItems(row,
          <<Item("minimum_years_experience", PyInt(0)),
            Item("salary_max", PyInt(0)),
            Item("salary_min", PyInt(0)),
            Item("salary_avg", PyInt(0)),
            Item("ssoc", PyInt(0)),
            Item("is_engineering", [t |-> "bool", b |-> FALSE]),
            Item("is_employment_agency", [t |-> "bool", b |-> FALSE]),
            Item("is_gig", [t |-> "bool", b |-> FALSE]),
            Item("top_skill_1", PyInt(0)),
            Item("top_skill_2", PyInt(0)),
            Item("top_skill_3", PyInt(0)),
            Item("top_skill_4", PyInt(0)),
            Item("top_skill_5", PyInt(0))>>)

\* Transformer.transform_row is abstract: its body is "pass"
Transformer_transform_row(row) == Returned(PyNone)

ENTRY_LEVEL == {"Fresh/entry level", "Non-executive", "Executive", "Junior Executive"}

EXECUTIVE_LEVEL == {"Senior Executive"}

MANAGER_LEVEL == {"Manager", "Middle Management", "Senior Management"}

PROFESSIONAL_LEVEL == {"Professional"}

JobsbankTransformer_map_position(position) ==
    IF position \in ENTRY_LEVEL THEN "entry"
    ELSE IF position \in EXECUTIVE_LEVEL THEN "executive"
    ELSE IF position \in MANAGER_LEVEL THEN "manager"
    ELSE IF position \in PROFESSIONAL_LEVEL THEN "professional"
    ELSE "manager"

\* lines 172-180: the items set from row['salary']
JobsbankSalaryItems(row) ==
    LET salary  == Get(row, "salary", <<>>)
        maximum == Get(salary, "maximum", 0)
        minimum == Get(salary, "minimum", 0)
    IN  IF DOMAIN salary # {} /\ maximum # 0 /\ minimum # 0
        THEN <<Item("salary_max", PyInt(maximum)),
               Item("salary_min", PyInt(minimum)),
               Item("salary_avg", PyHalf(maximum + minimum))>>
        ELSE <<>>

\* lines 191-194 with the salary test ">= 5000"
Escalate_from_5000(level, years, salary_avg) ==
    IF level = "entry" /\ NumGe(years, PyInt(3)) THEN "executive"
    ELSE IF level = "entry" /\ NumGe(salary_avg, PyInt(5000)) THEN "executive"
    ELSE level

\* lines 191-194
Escalate(level, years, salary_avg) ==
    IF level = "entry" /\ NumGe(years, PyInt(3)) THEN "executive"
    ELSE IF level = "entry" /\ NumGt(salary_avg, PyInt(5000)) THEN "executive"
    ELSE level

JobsbankRequired ==
    {"uuid", "title", "minimumYearsExperience", "positionLevels", "metadata",
     "skills"}

JobsbankTransformer_transform_row(row, skill_count) ==
    LET first_description  == clean_non_ascii(clean_html(Get(row, "description", <<>>)))
        second_description == clean_non_ascii(clean_html(Get(row, "otherRequirements", <<>>)))
        description == first_description \o <<" ">> \o second_description
        posted_company == Get(row, "postedCompany", <<>>)
        company == IF DOMAIN posted_company # {}
                   THEN <<Item("uen", IF "uen" \in DOMAIN posted_company
                                      THEN PyStr(posted_company["uen"]) ELSE PyNone),
                          Item("company_name", IF "name" \in DOMAIN posted_company
                                      THEN PyStr(posted_company["name"]) ELSE PyNone)>>
                   ELSE <<>>
        new_row1 == SetItems(init_empty_row("JobsbankTransformer"),
                       <<Item("source_id", PyStr(row["uuid"])),
                         Item("title", PyText(row["title"]))>>
                       \o company
                       \o <<Item("minimum_qualification", PyStr("None")),
                            Item("minimum_qualification",
                                 PyStr(get_lowest_qualification(get_education(description))))>>
                       \o JobsbankSalaryItems(row))
        years == IF row["minimumYearsExperience"].t = "int"
                 THEN row["minimumYearsExperience"]
                 ELSE get_minimum_years_experience(description)
        positions == [i \in 1..Len(row["positionLevels"]) |->
                        JobsbankTransformer_map_position(row["positionLevels"][i].position)]
        minimum_experience_level ==
            Escalate(get_minimum_experience_level(PyList(positions)), years,
                     GetItem(new_row1, "salary_avg"))
        sorted == sort_skills(row["skills"], skill_count)
        skills == get_top_skills(sorted.val, 5)
        new_row2 == SetItems(new_row1,
                       <<Item("minimum_years_experience", years),
                         Item("experience_level", PyStr(minimum_experience_level)),
                         Item("num_vacancies",
                              IF "numberOfVacancies" \in DOMAIN row
                              THEN PyInt(row["numberOfVacancies"]) ELSE PyInt(1)),
                         Item("ssoc", IF "ssocCode" \in DOMAIN row
                                      THEN PyInt(row["ssocCode"]) ELSE PyNone),
                         Item("date_posted", PyStr(row["metadata"].originalPostingDate)),
                         Item("date_expire", PyStr(row["metadata"].expiryDate)),
                         Item("date_last_seen", PyStr(row["metadata"].expiryDate)),
                         Item("source", PyStr("jobsbank")),
                         Item("description", PyText(description)),
                         Item("is_engineering",
                              IF is_engineering(row["title"], description)
                              THEN PyInt(1) ELSE PyInt(0)),
                         Item("is_employment_agency",
                              IF row["metadata"].isPostedOnBehalf
                              THEN PyInt(1) ELSE PyInt(0)),
                         Item("is_gig", PyInt(0))>>)
    IN  IF ~(JobsbankRequired \subseteq DOMAIN row) THEN Raised("KeyError")
        ELSE IF sorted.exc # "" THEN sorted
        ELSE IF Len(skills) < 5 THEN Raised("IndexError")
        ELSE Returned(SetItems(new_row2,
                       <<Item("top_skill_1", PyInt(skills[1].id)),
                         Item("top_skill_2", PyInt(skills[2].id)),
                         Item("top_skill_3", PyInt(skills[3].id)),
                         Item("top_skill_4", PyInt(skills[4].id)),
                         Item("top_skill_5", PyInt(skills[5].id))>>))

\* the caller's skill_count after transform_row: sort_skills is reached when
\* no row[...] before line 223 raised KeyError
JobsbankSkillCountAfter(row, skill_count) ==
    IF JobsbankRequired \subseteq DOMAIN row
    THEN CallerSkillCount(skill_count) ELSE skill_count

\* lines 266-274: the items set from row['baseSalary'] or row['min_salary']
FastjobsSalaryItems(row) ==
    IF "baseSalary" \in DOMAIN row
    THEN <<Item("salary_min", PyInt(row["baseSalary"].value.value)),
           Item("salary_max", PyInt(row["baseSalary"].value.value)),
           Item("salary_avg", PyInt(row["baseSalary"].value.value))>>
    ELSE IF Get(row, "min_salary", 0) # 0
    THEN <<Item("salary_min", PyInt(row["min_salary"])),
           Item("salary_max", PyInt(row["min_salary"])),
           Item("salary_avg", PyInt(row["min_salary"]))>>
    ELSE <<>>

FastjobsRequired == {"identifier", "title", "posted_on", "expiring_on"}

FastjobsTransformer_transform_row(row) ==
    LET description == Get(row, "description", <<>>)
        organization == Get(row, "hiringOrganization", <<>>)
    IN  IF ~(FastjobsRequired \subseteq DOMAIN row) THEN Raised("KeyError")
        ELSE Returned(SetItems(init_empty_row("FastjobsTransformer"),
               <<Item("source_id", PyStr(row["identifier"].value)),
                 Item("title", PyText(row["title"])),
                 Item("uen", IF "uen" \in DOMAIN row
                             THEN PyStr(row["uen"]) ELSE PyStr("none")),
                 Item("company_name",
                      IF Get(organization, "name", "") # ""
                      THEN PyStr(organization["name"]) ELSE PyStr("")),
                 Item("minimum_qualification",
                      PyStr(get_lowest_qualification(get_education(description)))),
                 Item("minimum_years_experience",
                      get_minimum_years_experience(description)),
                 Item("num_vacancies", PyInt(1)),
                 Item("experience_level", PyStr("none"))>>
               \o FastjobsSalaryItems(row)
               \o <<Item("date_posted", PyStr(row["posted_on"])),
                    Item("date_expire", PyStr(row["expiring_on"])),
                    Item("source", PyStr("fastjobs")),
                    Item("description", PyText(description)),
                    Item("is_engineering",
                         IF is_engineering(row["title"], description)
                         THEN PyInt(1) ELSE PyInt(0)),
                    Item("is_employment_agency", PyInt(0)),
                    Item("is_gig", PyInt(0))>>))

\* a dict with str keys is a sequence of (key, value) pairs
DictGet(d, key, default) ==
    IF \E i \in 1..Len(d) : d[i][1] = key
    THEN d[CHOOSE i \in 1..Len(d) : d[i][1] = key][2]
    ELSE default

jobscentral_education ==
    <<<<<<"d", "r", "i", "n", "1", "4">>, "diploma">>, <<<<"d", "r", "3", "2">>, "degree">>,
      <<<<"d", "r", "u", "c", "d", "r">>, "degree">>, <<<<"d", "r", "i", "t", "e">>, "ITE">>,
      <<<<"d", "r", "a", "l">>, "diploma">>, <<<<"d", "r", "n", "o", "l">>, "primary/secondary">>>>

jobscentral_experience ==
    <<<<<<"0">>, "entry">>, <<<<"1">>, "manager">>, <<<<"2">>, "manager">>,
      <<<<"3">>, "manager">>, <<<<"4">>, "executive">>, <<<<"5">>, "entry">>>>

\* str.replace(old, new) for a non-empty old
RECURSIVE StrReplace(_, _, _)
StrReplace(s, old, new) ==
    IF Len(s) < Len(old) THEN s
    ELSE IF SubSeq(s, 1, Len(old)) = old
         THEN new \o StrReplace(SubSeq(s, Len(old) + 1, Len(s)), old, new)
    ELSE <<Head(s)>> \o StrReplace(Tail(s), old, new)

clean_text(description) ==
    StrReplace(StrReplace(StrReplace(StrReplace(description,
        <<"&", "r", "s", "q", "u", "o", ";">>, <<"'">>), <<"&", "h", "e", "l", "l", "i", "p", ";">>, <<".">>), <<"&", "n", "b", "s", "p", ";">>, <<" ">>),
        <<"&", "a", "m", "p", ";">>, <<"&">>)

RECURSIVE MapEducation(_)
MapEducation(strings) ==
    IF strings = <<>> THEN <<>>
    ELSE (IF DictGet(jobscentral_education, Head(strings), "") # ""
          THEN <<DictGet(jobscentral_education, Head(strings), "")>> ELSE <<>>)
         \o MapEducation(Tail(strings))

JobscentralTransformer_get_education(educational_string) ==
    MapEducation(SplitOn(educational_string, ","))

\* returns pos, the lookup of the last code (line 341), not experience_strings
JobscentralTransformer_get_experience(position_string) ==
    LET strings == SplitOn(position_string, ",")
        pos     == DictGet(jobscentral_experience, strings[Len(strings)], "")
    IN  IF pos = "" THEN PyNone ELSE PyStr(pos)

\* int(s) for s without sign, blank or underscore
ParseInt(s) == IF IsDigitStr(s) THEN Returned(DigitsToInt(s)) ELSE Raised("ValueError")

JobscentralTransformer_get_money(money_string) ==
    LET money_parts == SplitOn(money_string, "-")
        low  == ParseInt(RemoveChar(StrStrip(money_parts[1]), ","))
        high == ParseInt(RemoveChar(
                    SplitOn(SplitOn(StrStrip(money_parts[2]), " ")[1], ".")[1], ","))
    IN  IF Len(money_parts) = 2
        THEN IF low.exc # "" THEN low
             ELSE IF high.exc # "" THEN high
             ELSE Returned(<<low.val, high.val>>)
        ELSE IF Len(money_parts) = 1
        THEN IF low.exc # "" THEN low ELSE Returned(<<low.val, low.val>>)
        ELSE Returned(<<0, 0>>)

\* lines 387-389: (sal_low, sal_high), a result record
JobscentralSalary(payHighLow) ==
    IF IsDigitStr(payHighLow) THEN JobscentralTransformer_get_money(payHighLow)
    ELSE Returned(<<0, 0>>)

JobscentralRequired ==
    {"id", "jobTitle", "company", "qualification", "position", "payHighLow",
     "postDate", "endDate"}

JobscentralTransformer_transform_row(row) ==
    LET description == clean_non_ascii(clean_text(clean_html(
                          Get(row, "jobDescription", <<>>) \o <<" ">>
                             \o Get(row, "companyProfiles", <<>>))))
        sal == JobscentralSalary(row["payHighLow"])
    IN  IF ~(JobscentralRequired \subseteq DOMAIN row) THEN Raised("KeyError")
        ELSE IF sal.exc # "" THEN sal
        ELSE Returned(SetItems(init_empty_row("JobscentralTransformer"),
               <<Item("source_id", PyStr(row["id"])),
                 Item("title", PyText(row["jobTitle"])),
                 Item("uen", PyStr("none")),
                 Item("company_name", PyStr(row["company"])),
                 Item("minimum_qualification",
                      PyStr(get_lowest_qualification(
                          JobscentralTransformer_get_education(row["qualification"])))),
                 Item("minimum_years_experience",
                      get_minimum_years_experience(description)),
                 Item("experience_level",
                      PyStr(get_minimum_experience_level(
                          JobscentralTransformer_get_experience(row["position"])))),
                 Item("num_vacancies", PyInt(1)),
                 Item("salary_min", PyInt(sal.val[1])),
                 Item("salary_max", PyInt(sal.val[2])),
                 Item("salary_avg", PyInt((sal.val[2] + sal.val[1]) \div 2)),
                 Item("date_posted", PyText(SplitOn(row["postDate"], "T")[1])),
                 Item("date_expire", PyText(SplitOn(row["endDate"], "T")[1])),
                 Item("source", PyStr("jobscentral")),
                 Item("description", PyText(description)),
                 Item("is_engineering",
                      IF is_engineering(row["jobTitle"], Get(row, "jobDescription", <<>>))
                      THEN PyInt(1) ELSE PyInt(0)),
                 Item("is_employment_agency",
                      IF Len(Get(row, "eaLicenceNo", <<>>)) > 0
                      THEN PyInt(1) ELSE PyInt(0)),
                 Item("is_gig", PyInt(0))>>))

-----------------------------------------------------------------------------
(* industry.py *)

\* A csv file is the sequence of its rows after csv.reader, header row
\* included; a row is the sequence of its fields.

\* the rows after the header (line_count = 1 is skipped)
DataRows(file) == SubSeq(file, 2, Len(file))

\* the value a dict holds for `key` after the rows were stored in turn: that of
\* the last row with the key in column `col` (0-based)
LastStored(data, col, key) ==
    LET r == data[SetMax({i \in 1..Len(data) : data[i][col + 1] = key})]
    IN  <<PyText(r[1]), PyText(r[2]), PyText(r[3])>>

\* lines 5-32: (d2010, d2015); a row is stored under a code that is not empty
get_mapping_dict(file) ==
    LET data == DataRows(file)
        keys(col) == {data[i][col + 1] : i \in 1..Len(data)} \ {<<>>}
    IN  [d2010 |-> [key \in keys(3) |-> LastStored(data, 3, key)],
         d2015 |-> [key \in keys(4) |-> LastStored(data, 4, key)]]

\* lines 35-57: key = row[0].strip(), value = (row[1], row[2], row[3])
get_backup_mapping_dict(file) ==
    LET data == DataRows(file)
        last(key) == data[SetMax({i \in 1..Len(data) : StrStrip(data[i][1]) = key})]
    IN  [key \in {StrStrip(data[i][1]) : i \in 1..Len(data)} |->
            <<PyText(last(key)[2]), PyText(last(key)[3]), PyText(last(key)[4])>>]

\* lines 71-72
\* (the variant below leaves a 4-character code as it is)
PadCode_unpadded(ssic) == ssic

PadCode(ssic) == IF Len(ssic) = 4 THEN <<"0">> \o ssic ELSE ssic

\* lines 70-82, with the three dicts of lines 61 and 67; a stored value is a
\* 3-tuple, which is true for `if res:`
get_industry_mapping(ssic, d2010, d2015, backup_mapping) ==
    LET code == PadCode(ssic)
        key == Slice(code, 0, 2)
    IN  IF code \in DOMAIN d2015 THEN d2015[code]
        ELSE IF code \in DOMAIN d2010 THEN d2010[code]
        ELSE Get(backup_mapping, key, <<PyNone, PyNone, PyNone>>)

-----------------------------------------------------------------------------
(* Input sets *)

MoneyPieces ==
    {<<"$">>, <<"k">>, <<"-">>, <<".">>, <<",">>, <<"3">>, <<"5">>, <<"5", "0">>, <<"9", "9">>,
     <<"0", "0", "0">>, <<"a", "b", "c">>}

DigitCount(s) == Cardinality({i \in 1..Len(s) : s[i] \in DigitChars})

\* the sides of a range 'X-Y': currency-marked, k-suffixed, bare numerals, of
\* amount 0 or more, and sides that are no amount
RangeSides ==
    {<<"$", "3", "0", "0", "0">>, <<"$", "5", "0", "0", "1">>, <<"$", "0">>, <<"3", "k">>, <<"5", "k">>, <<"0", "k">>, <<"4", "0", "0", "0">>, <<"0">>,
     <<"a", "b", "c">>, <<"$">>}

MoneyRanges == {x \o <<"-">> \o y : x \in RangeSides, y \in RangeSides}

\* numerals with two decimal points
MoneyExamples == {<<"$", "1", ".", "2", ".", "3">>, <<"1", ".", "2", ".", "3", "k">>}

MoneyTokens ==
    {t \in {Flatten(p) : p \in SeqsUpTo(MoneyPieces, MaxTokenParts)} :
        DigitCount(t) <= MaxDigits}
    \cup MoneyRanges \cup MoneyExamples

YearsPieces ==
    {<<" ">>, <<"-">>, <<"3">>, <<"2", "-", "5">>, <<"2", "-", "4">>, <<"o", "n", "e">>, <<"n", "i", "n", "e">>, <<"a">>,
     <<"y", "e", "a", "r", " ", "e", "x", "p", "e", "r", "i", "e", "n", "c", "e">>, <<" ", "Y", "e", "a", "r", "s", " ", "E", "x", "p", "e", "r", "i", "e", "n", "c", "e">>}

YearsDescriptions == {Flatten(p) : p \in SeqsUpTo(YearsPieces, MaxDescParts)}

NumberWords ==
    {<<"o", "n", "e">>, <<"t", "w", "o">>, <<"t", "h", "r", "e", "e">>, <<"f", "o", "u", "r">>, <<"f", "i", "v", "e">>, <<"s", "i", "x">>, <<"s", "e", "v", "e", "n">>,
     <<"e", "i", "g", "h", "t">>, <<"n", "i", "n", "e">>}

NumStrings == NumberWords \cup {<<>>, <<"z", "e", "r", "o">>, <<"t", "e", "n">>, <<"O", "n", "e">>, <<"3">>}

ShiftWords == {<<"S", "h", "i", "f", "t">>, <<"s", "h", "i", "f", "t", "s">>, <<"n", "i", "g", "h", "t">>, <<"7", "a", "m">>, <<"t", "h", "e">>}

ShiftDescriptions == {JoinSp(w) : w \in SeqsUpTo(ShiftWords, MaxShiftTokens)}

Qualifications ==
    {PRIMARY, SECONDARY, PRIMARY_SECONDARY, ITE, DIPLOMA, DEGREE, "certificate"}

QualificationLists == SeqsUpTo(Qualifications, MaxQualifications)

\* The raw records.  A dict is a function on the keys it holds; an optional
\* key is held or not.

Classes ==
    {"Transformer", "JobsbankTransformer", "FastjobsTransformer",
     "JobscentralTransformer"}

Without(d, key) == [k \in DOMAIN d \ {key} |-> d[k]]

\* skill k of a record: its id is k - 1
SkillAt(k) ==
    [id |-> k - 1, skill |-> "skill", confidence |-> 10 + ((k * 7) % 5) * 20]

FirstSkills(n) == [k \in 1..n |-> SkillAt(k)]

\* the caller's skill-frequency table, one count per skill id
SkillCounts == [i \in 1..MaxSkills |-> (i * 2) % 3]

JobsbankTexts ==
    {<<>>,
     [description |-> <<"<", "p", ">", "M", "e", "c", "h", "a", "n", "i", "c", "a", "l", " ", "e", "n", "g", "i", "n", "e", "e", "r", " ", "w", "i", "t", "h", " ", "3", " ", "y", "e", "a", "r", "s", " ", "e", "x", "p", "e", "r", "i", "e", "n", "c", "e", "<", "/", "p", ">">>],
     [description |-> <<"D", "e", "g", "r", "e", "e", " ", "o", "r", " ", "d", "i", "p", "l", "o", "m", "a">>,
      otherRequirements |-> <<"2", "-", "5", " ", "Y", "e", "a", "r", "s", " ", "E", "x", "p", "e", "r", "i", "e", "n", "c", "e">>]}

JobsbankCompanies ==
    {<<>>,
     [postedCompany |-> [name |-> "Acme"]],
     [postedCompany |-> [uen |-> "200012345K", name |-> "Acme"]]}

JobsbankExtras == {<<>>, [ssocCode |-> 21494, numberOfVacancies |-> 2]}

JobsbankSalaries ==
    {<<>>}
    \cup {[salary |-> lo @@ hi] :
            lo \in {<<>>, [minimum |-> 0], [minimum |-> 3000]},
            hi \in {<<>>, [maximum |-> 7000], [maximum |-> 7001]}}

JobsbankYears == {PyNone, PyInt(2), PyInt(3)}

JobsbankPositions == {"Fresh/entry level", "Professional", "Senior Executive", "Intern"}

JobsbankPositionLevels ==
    {[i \in DOMAIN titles |-> [position |-> titles[i]]] :
        titles \in SeqsUpTo(JobsbankPositions, MaxPositions)}

JobsbankRecord(text, company, extra, salary, years, levels, skills) ==
    [uuid |-> "a1b2", title |-> <<"P", "r", "o", "c", "e", "s", "s", " ", "T", "e", "c", "h", "n", "i", "c", "i", "a", "n">>,
     minimumYearsExperience |-> years, positionLevels |-> levels,
     metadata |-> [originalPostingDate |-> "2019-06-25",
                   expiryDate |-> "2019-07-11", isPostedOnBehalf |-> FALSE],
     skills |-> skills] @@ text @@ company @@ extra @@ salary

JobsbankFull ==
    JobsbankRecord([description |-> <<"D", "e", "g", "r", "e", "e", " ", "o", "r", " ", "d", "i", "p", "l", "o", "m", "a">>],
                   [postedCompany |-> [uen |-> "200012345K", name |-> "Acme"]],
                   [ssocCode |-> 21494, numberOfVacancies |-> 2],
                   [salary |-> [minimum |-> 3000, maximum |-> 7000]],
                   PyInt(2), <<[position |-> "Professional"]>>, FirstSkills(5))

JobsbankRecords ==
    {JobsbankRecord(text, [postedCompany |-> [uen |-> "200012345K", name |-> "Acme"]],
                    [ssocCode |-> 21494, numberOfVacancies |-> 2],
                    salary, years, levels, FirstSkills(5)) :
        text \in JobsbankTexts, salary \in JobsbankSalaries,
        years \in JobsbankYears, levels \in JobsbankPositionLevels}
    \cup {JobsbankRecord(text, company, extra, <<>>, PyInt(2),
                         <<[position |-> "Fresh/entry level"]>>, FirstSkills(n)) :
            text \in JobsbankTexts, company \in JobsbankCompanies,
            extra \in JobsbankExtras, n \in 0..MaxSkills}
    \cup {Without(JobsbankFull, key) : key \in JobsbankRequired}

FastjobsTexts ==
    {<<>>,
     [description |-> <<"D", "i", "p", "l", "o", "m", "a", " ", "h", "o", "l", "d", "e", "r", ",", " ", "o", "n", "e", " ", "y", "e", "a", "r", " ", "e", "x", "p", "e", "r", "i", "e", "n", "c", "e">>],
     [description |-> <<"s", "e", "c", "o", "n", "d", "a", "r", "y", " ", "s", "c", "h", "o", "o", "l", ",", " ", "2", "-", "4", " ", "y", "e", "a", "r", "s", " ", "e", "x", "p", "e", "r", "i", "e", "n", "c", "e">>]}

FastjobsRecord(text, uen, organization, base, min_salary) ==
    [identifier |-> [value |-> "f-77"], title |-> <<"C", "a", "s", "h", "i", "e", "r">>,
     posted_on |-> "2019-06-25", expiring_on |-> "2019-07-11"]
        @@ text @@ uen @@ organization @@ base @@ min_salary

FastjobsFull ==
    FastjobsRecord([description |-> <<"D", "i", "p", "l", "o", "m", "a", " ", "h", "o", "l", "d", "e", "r", ",", " ", "o", "n", "e", " ", "y", "e", "a", "r", " ", "e", "x", "p", "e", "r", "i", "e", "n", "c", "e">>],
                   [uen |-> "200012345K"],
                   [hiringOrganization |-> [name |-> "Acme"]],
                   [baseSalary |-> [value |-> [value |-> 2500]]],
                   [min_salary |-> 1800])

FastjobsRecords ==
    {FastjobsRecord(text, uen, organization, base, min_salary) :
        text \in FastjobsTexts,
        uen \in {<<>>, [uen |-> "200012345K"]},
        organization \in {<<>>, [hiringOrganization |-> <<>>],
                          [hiringOrganization |-> [name |-> "Acme"]]},
        base \in {<<>>, [baseSalary |-> [value |-> [value |-> 0]]],
                  [baseSalary |-> [value |-> [value |-> 2500]]]},
        min_salary \in {<<>>, [min_salary |-> 0], [min_salary |-> 1800]}}
    \cup {Without(FastjobsFull, key) : key \in FastjobsRequired}

JobscentralAmounts == {<<"1", ",", "0", "0", "0">>, <<"3", ",", "0", "0", "0">>, <<"5", ",", "6", "0", "0">>, <<"2", "0">>, <<"5", "1">>, <<"x">>}

JobscentralUnits == {<<>>, <<" ", "S", "G", "D", " ", "/", " ", "M", "o", "n", "t", "h">>, <<".", "5", "0", " ", "S", "G", "D", " ", "/", " ", "H", "o", "u", "r">>}

\* the strings of 'payHighLow': a range, a single value, with or without unit
PayStrings ==
    {lo \o <<" ", "-", " ">> \o hi \o unit :
        lo \in JobscentralAmounts, hi \in JobscentralAmounts, unit \in JobscentralUnits}
    \cup {v \o unit : v \in JobscentralAmounts \cup {<<"3", "0", "0", "0">>}, unit \in JobscentralUnits}
    \cup {<<"1", "-", "2", "-", "3">>}

JobscentralPay ==
    {<<>>, <<"3", "0", "0", "0">>, <<"1", ",", "0", "0", "0", " ", "-", " ", "3", ",", "0", "0", "0", " ", "S", "G", "D", " ", "/", " ", "M", "o", "n", "t", "h">>,
     <<"3", ",", "0", "0", "0", " ", "-", " ", "5", ",", "6", "0", "0", " ", "S", "G", "D", " ", "/", " ", "M", "o", "n", "t", "h">>, <<"2", "0", " ", "-", " ", "5", "1", " ", "S", "G", "D", " ", "/", " ", "M", "o", "n", "t", "h">>,
     <<"3", "0", "0", "0", " ", "S", "G", "D", " ", "/", " ", "M", "o", "n", "t", "h">>}

JobscentralPositionStrings ==
    {<<>>, <<"0">>, <<"4">>, <<"9">>, <<"0", ",", "4">>, <<"4", ",", "0">>, <<"0", ",", "9">>, <<"9", ",", "0">>,
     <<"1", ",", "2">>}

JobscentralQualificationStrings ==
    {<<>>, <<"d", "r", "i", "t", "e">>, <<"d", "r", "i", "t", "e", ",", "d", "r", "3", "2">>, <<"d", "r", "3", "2", ",", "d", "r", "n", "o", "l">>}

JobscentralTexts ==
    {<<>>,
     [jobDescription |-> <<"<", "b", ">", "T", "e", "c", "h", "n", "i", "c", "a", "l", "<", "/", "b", ">", " ", "s", "u", "p", "p", "o", "r", "t", "&", "n", "b", "s", "p", ";", "3", " ", "y", "e", "a", "r", "s", " ", "e", "x", "p", "e", "r", "i", "e", "n", "c", "e">>,
      companyProfiles |-> <<"A", "p", "p", "l", "e", "&", "r", "s", "q", "u", "o", ";", "s", " ", "s", "t", "o", "r", "e">>]}

JobscentralRecord(text, licence, pay, position, qualification) ==
    [id |-> "J3T5YM6K0G1J9F80JDX", jobTitle |-> <<"A", "p", "p", "l", "e", " ", "G", "e", "n", "i", "u", "s">>,
     company |-> "Apple Inc.", qualification |-> qualification,
     position |-> position, payHighLow |-> pay,
     postDate |-> <<"2", "0", "1", "9", "-", "0", "6", "-", "2", "5", "T", "1", "0", ":", "0", "0", ":", "0", "0">>, endDate |-> <<"2", "0", "1", "9", "-", "0", "7", "-", "1", "1", "T", "1", "0", ":", "0", "0", ":", "0", "0">>]
        @@ text @@ licence

JobscentralFull ==
    JobscentralRecord(<<>>, <<>>, <<"3", "0", "0", "0">>, <<"0">>, <<"d", "r", "i", "t", "e">>)

JobscentralRecords ==
    {JobscentralRecord(text, licence, pay, position, qualification) :
        text \in JobscentralTexts,
        licence \in {<<>>, [eaLicenceNo |-> <<"1", "2", "C", "3", "4", "5", "6">>]},
        pay \in JobscentralPay,
        position \in JobscentralPositionStrings,
        qualification \in JobscentralQualificationStrings}
    \cup {Without(JobscentralFull, key) : key \in JobscentralRequired}

\* the OrderedDict objects created so far: how many calls were made, how many
\* objects, the object the last call returned (0: none) and those returned by
\* earlier calls
NoRows == [calls |-> 0, made |-> 0, last |-> 0, returned |-> {}]

\* industry codes: every string of at most MaxCodeLen of the digits 0 and 1
IndustryCodes == SeqsUpTo({"0", "1"}, MaxCodeLen)

MappingHeader == <<<<"s", "e", "c", "t", "o", "r">>, <<"i", "n", "d", "u", "s", "t", "r", "y">>, <<"s", "u", "b", "i", "n", "d", "u", "s", "t", "r", "y">>, <<"s", "s", "i", "c", "2", "0", "1", "0">>, <<"s", "s", "i", "c", "2", "0", "1", "5">>>>

MappingRow(sector, ssic2010, ssic2015) ==
    <<sector, <<"I", "n", "d", "u", "s", "t", "r", "y">>, <<"S", "u", "b">>, ssic2010, ssic2015>>

\* industry_mappings.csv: codes of one revision only, of both, a code that the
\* revisions give to different sectors, a code stored twice, a 4-character code
MappingFiles ==
    {<<MappingHeader>>,
     <<MappingHeader, MappingRow(<<"A">>, <<"0", "1", "1", "1", "1">>, <<>>)>>,
     <<MappingHeader, MappingRow(<<"A">>, <<>>, <<"0", "1", "1", "1", "1">>)>>,
     <<MappingHeader, MappingRow(<<"A">>, <<"0", "1", "1", "1", "1">>, <<"0", "1", "1", "0", "1">>),
                      MappingRow(<<"B">>, <<"1", "1", "0", "1", "1">>, <<"0", "1", "1", "1", "1">>)>>,
     <<MappingHeader, MappingRow(<<"A">>, <<"1", "0", "0", "0", "0">>, <<"1", "0", "0", "0", "0">>),
                      MappingRow(<<"B">>, <<"1", "0", "0", "0", "0">>, <<"1", "1", "1", "1">>)>>,
     <<MappingHeader, MappingRow(<<>>, <<"0", "0", "0", "0", "0">>, <<"0", "0">>),
                      MappingRow(<<"B">>, <<"0", "0", "0", "0">>, <<"1">>)>>}

FallbackHeader == <<<<"s", "s", "i", "c">>, <<"s", "e", "c", "t", "o", "r">>, <<"i", "n", "d", "u", "s", "t", "r", "y">>, <<"s", "u", "b", "i", "n", "d", "u", "s", "t", "r", "y">>>>

\* industry_mapping_fallback.csv
FallbackFiles ==
    {<<FallbackHeader>>,
     <<FallbackHeader, <<<<"0", "1">>, <<"C">>, <<"I", "n", "d", "u", "s", "t", "r", "y">>, <<"S", "u", "b">>>>>>,
     <<FallbackHeader, <<<<" ", "1", "1", " ">>, <<"C">>, <<"I", "n", "d", "u", "s", "t", "r", "y">>, <<"S", "u", "b">>>>,
                       <<<<"0", "0">>, <<"D">>, <<"I", "n", "d", "u", "s", "t", "r", "y">>, <<"S", "u", "b">>>>,
                       <<<<"1">>, <<"E">>, <<"I", "n", "d", "u", "s", "t", "r", "y">>, <<"S", "u", "b">>>>>>}

IndustryCalls ==
    {[ssic |-> ssic, mappings |-> mappings, fallback |-> fallback] :
        ssic \in IndustryCodes, mappings \in MappingFiles, fallback \in FallbackFiles}

\* the skills of sort_skills and get_top_skills: three ids, two raw confidences
RankedSkills ==
    {[id |-> id, skill |-> "skill", confidence |-> confidence] :
        id \in 0..2, confidence \in {20, 60}}

SkillLists == SeqsUpTo(RankedSkills, MaxRanked)

\* skill-frequency tables: all unseen, seen, and one without the ids 1 and 2
SkillTables == {<<0, 0, 0>>, <<2, 1, 0>>, <<1>>}

\* the n of get_top_skills: negative, zero, within and beyond the list
TopCounts == -1..(MaxRanked + 1)

\* descriptions for get_salary: up to MaxSalaryTokens of three words, which
\* puts amounts inside and outside the window of a 'salary' token;
SalaryWords == {<<"s", "a", "l", "a", "r", "y">>, <<"t", "h", "e">>, <<"$", "3", "0", "0", "0">>}

\* up to three of a wider vocabulary (capitals, two amounts, a range, an amount
\* under 100 and a numeral with two decimal points);
SalaryTerms ==
    {<<"S", "a", "l", "a", "r", "y", ":">>, <<"$", "3", "0", "0", "0">>, <<"$", "5", "0", "0", "1">>, <<"4", "k">>, <<"5", "0">>, <<"$", "2", ",", "0", "0", "0", "-", "$", "3", ",", "0", "0", "0">>,
     <<"$", "1", ".", "2", ".", "3">>}

\* and two 'salary' tokens with different amounts in their windows, and an
\* amount two positions after the first one but outside the window
SalaryExamples ==
    {<<"s", "a", "l", "a", "r", "y", " ", "$", "3", "0", "0", "0", " ", "a", " ", "b", " ", "c", " ", "d", " ", "e", " ", "s", "a", "l", "a", "r", "y", " ", "$", "5", "0", "0", "1">>,
     <<"s", "a", "l", "a", "r", "y", " ", "a", " ", "b", " ", "c", " ", "$", "3", "0", "0", "0", " ", "x", " ", "$", "5", "0", "0", "1">>,
     <<"s", "a", "l", "a", "r", "y", " ", "$", "3", "0", "0", "0", " ", "a", " ", "b", " ", "c", " ", "d", " ", "e", " ", "s", "a", "l", "a", "r", "y", " ", "$", "1", ".", "2", ".", "3">>,
     <<"$", "5", "0", "0", "1", " ", "x", " ", "$", "3", "0", "0", "0", " ", "B", "a", "s", "i", "c", "-", "S", "a", "l", "a", "r", "y", " ", "t", "h", "e", " ", "t", "h", "e", " ", "t", "h", "e", " ", "t", "h", "e", " ", "t", "h", "e", " ", "s", "a", "l", "a", "r", "y", " ", "t", "h", "e", " ", "4", "k">>}

SalaryDescriptions ==
    {JoinSp(w) : w \in SeqsUpTo(SalaryWords, MaxSalaryTokens)}
    \cup {JoinSp(w) : w \in SeqsUpTo(SalaryTerms, 3)}
    \cup SalaryExamples

\* the minimum of get_salary: its default, and one between the amounts
SalaryMinimums == {0, 3500}

\* descriptions for get_education: the two anchors, a complement word and a
\* neutral word, up to MaxEducationTokens of them; and some with capitals, an
\* anchor inside a longer token and the other qualifications
EducationWords == {<<"p", "r", "i", "m", "a", "r", "y">>, <<"s", "e", "c", "o", "n", "d", "a", "r", "y">>, <<"d", "u", "t", "i", "e", "s">>, <<"t", "h", "e">>}

EducationExamples ==
    {<<"P", "r", "i", "m", "a", "r", "y", " ", "R", "o", "l", "e", ":", " ", "t", "e", "a", "c", "h", " ", "a", "t", " ", "a", " ", "p", "o", "s", "t", "-", "s", "e", "c", "o", "n", "d", "a", "r", "y", " ", "c", "o", "l", "l", "e", "g", "e">>,
     <<"D", "e", "g", "r", "e", "e", " ", "o", "r", " ", "N", "I", "T", "E", "C", ",", " ", "p", "r", "i", "m", "a", "r", "y", " ", "d", "u", "t", "i", "e", "s", " ", "o", "f", " ", "t", "h", "e", " ", "f", "u", "n", "c", "t", "i", "o", "n">>,
     <<"P", "S", "L", "E", "/", "p", "r", "i", "m", "a", "r", "y", "-", "s", "c", "h", "o", "o", "l", ",", " ", "d", "i", "p", "l", "o", "m", "a">>}

EducationDescriptions ==
    {JoinSp(w) : w \in SeqsUpTo(EducationWords, MaxEducationTokens)}
    \cup EducationExamples

-----------------------------------------------------------------------------
(* The calls *)

Init ==
    /\ pc = "call"
    /\ ret = NoRet
    /\ rows = NoRows
    /\ seen = <<>>
    /\ \/ fn = "get_money" /\ arg \in MoneyTokens
       \/ fn = "num_from_string" /\ arg \in NumStrings
       \/ fn = "get_minimum_years_experience" /\ arg \in YearsDescriptions
       \/ fn = "get_lowest_qualification" /\ arg \in QualificationLists
       \/ fn = "get_highest_qualification" /\ arg \in QualificationLists
       \/ fn = "is_shift" /\ arg \in ShiftDescriptions
       \/ fn = "init_empty_row" /\ arg \in Classes
       \/ fn = "Transformer.transform_row" /\ arg \in {JobsbankFull, FastjobsFull}
       \/ fn = "JobsbankTransformer.transform_row"
             /\ arg \in {[row |-> r, skill_count |-> SkillCounts] : r \in JobsbankRecords}
       \/ fn = "FastjobsTransformer.transform_row" /\ arg \in FastjobsRecords
       \/ fn = "JobscentralTransformer.transform_row" /\ arg \in JobscentralRecords
       \/ fn = "JobscentralTransformer.get_money" /\ arg \in PayStrings
       \/ fn = "get_industry_mapping" /\ arg \in IndustryCalls
       \/ fn = "sort_skills"
             /\ arg \in [skills : SkillLists, skill_count : SkillTables]
       \/ fn = "get_top_skills" /\ arg \in [skills : SkillLists, n : TopCounts]
       \/ fn = "get_education" /\ arg \in EducationDescriptions
       \/ fn = "get_salary"
             /\ arg \in [description : SalaryDescriptions, minimum : SalaryMinimums]
    /\ objects = arg

Call_get_money ==
    /\ pc = "call" /\ fn = "get_money"
    /\ ret' = get_money(arg)
    /\ pc' = "done"
    /\ UNCHANGED <<fn, arg, objects, rows, seen>>

Call_num_from_string ==
    /\ pc = "call" /\ fn = "num_from_string"
    /\ ret' = Returned(num_from_string(arg))
    /\ pc' = "done"
    /\ UNCHANGED <<fn, arg, objects, rows, seen>>

Call_get_minimum_years_experience ==
    /\ pc = "call" /\ fn = "get_minimum_years_experience"
    /\ ret' = Returned(get_minimum_years_experience(arg))
    /\ pc' = "done"
    /\ UNCHANGED <<fn, arg, objects, rows, seen>>

Call_get_lowest_qualification ==
    /\ pc = "call" /\ fn = "get_lowest_qualification"
    /\ ret' = Returned(get_lowest_qualification(arg))
    /\ pc' = "done"
    /\ UNCHANGED <<fn, arg, objects, rows, seen>>

Call_get_highest_qualification ==
    /\ pc = "call" /\ fn = "get_highest_qualification"
    /\ ret' = Returned(get_highest_qualification(arg))
    /\ pc' = "done"
    /\ UNCHANGED <<fn, arg, objects, rows, seen>>

Call_is_shift ==
    /\ pc = "call" /\ fn = "is_shift"
    /\ ret' = Returned(is_shift(arg))
    /\ pc' = "done"
    /\ UNCHANGED <<fn, arg, objects, rows, seen>>

Call_init_empty_row ==
    /\ pc = "call" /\ fn = "init_empty_row"
    /\ ret' = Returned(init_empty_row(arg))
    /\ pc' = "done"
    /\ UNCHANGED <<fn, arg, objects, rows, seen>>

Call_Transformer_transform_row ==
    /\ pc = "call" /\ fn = "Transformer.transform_row"
    /\ ret' = Transformer_transform_row(arg)
    /\ pc' = "done"
    /\ UNCHANGED <<fn, arg, objects, rows, seen>>

Call_JobsbankTransformer_transform_row ==
    /\ pc = "call" /\ fn = "JobsbankTransformer.transform_row"
    /\ ret' = JobsbankTransformer_transform_row(objects.row, objects.skill_count)
    /\ objects' = [objects EXCEPT
                      !.skill_count = JobsbankSkillCountAfter(objects.row, @)]
    /\ pc' = "done"
    /\ UNCHANGED <<fn, arg, rows, seen>>

Call_FastjobsTransformer_transform_row ==
    /\ pc = "call" /\ fn = "FastjobsTransformer.transform_row"
    /\ ret' = FastjobsTransformer_transform_row(arg)
    /\ pc' = "done"
    /\ UNCHANGED <<fn, arg, objects, rows, seen>>

Call_JobscentralTransformer_transform_row ==
    /\ pc = "call" /\ fn = "JobscentralTransformer.transform_row"
    /\ ret' = JobscentralTransformer_transform_row(arg)
    /\ pc' = "done"
    /\ UNCHANGED <<fn, arg, objects, rows, seen>>

Call_JobscentralTransformer_get_money ==
    /\ pc = "call" /\ fn = "JobscentralTransformer.get_money"
    /\ ret' = JobscentralTransformer_get_money(arg)
    /\ pc' = "done"
    /\ UNCHANGED <<fn, arg, objects, rows, seen>>

\* the dicts are those loaded from the two files when the module was imported
Call_get_industry_mapping ==
    /\ pc = "call" /\ fn = "get_industry_mapping"
    /\ LET loaded == get_mapping_dict(arg.mappings)
       IN  ret' = Returned(get_industry_mapping(arg.ssic, loaded.d2010, loaded.d2015,
                                        get_backup_mapping_dict(arg.fallback)))
    /\ pc' = "done"
    /\ UNCHANGED <<fn, arg, objects, rows, seen>>

\* the new list holds new dicts; skills is only read
Call_sort_skills ==
    /\ pc = "call" /\ fn = "sort_skills"
    /\ ret' = sort_skills(objects.skills, objects.skill_count)
    /\ objects' = [objects EXCEPT !.skill_count = CallerSkillCount(@)]
    /\ pc' = "done"
    /\ UNCHANGED <<fn, arg, rows, seen>>

Call_get_top_skills ==
    /\ pc = "call" /\ fn = "get_top_skills"
    /\ ret' = Returned(get_top_skills(objects.skills, objects.n))
    /\ pc' = "done"
    /\ UNCHANGED <<fn, arg, objects, rows, seen>>

Call_get_education ==
    /\ pc = "call" /\ fn = "get_education"
    /\ ret' = Returned(get_education(arg))
    /\ pc' = "done"
    /\ UNCHANGED <<fn, arg, objects, rows, seen>>

Call_get_salary ==
    /\ pc = "call" /\ fn = "get_salary"
    /\ ret' = get_salary(arg.description, arg.minimum)
    /\ pc' = "done"
    /\ UNCHANGED <<fn, arg, objects, rows, seen>>

Next ==
    \/ Call_get_money
    \/ Call_num_from_string
    \/ Call_get_minimum_years_experience
    \/ Call_get_lowest_qualification
    \/ Call_get_highest_qualification
    \/ Call_is_shift
    \/ Call_init_empty_row
    \/ Call_Transformer_transform_row
    \/ Call_JobsbankTransformer_transform_row
    \/ Call_FastjobsTransformer_transform_row
    \/ Call_JobscentralTransformer_transform_row
    \/ Call_JobscentralTransformer_get_money
    \/ Call_get_industry_mapping
    \/ Call_sort_skills
    \/ Call_get_top_skills
    \/ Call_get_education
    \/ Call_get_salary

Spec == Init /\ [][Next]_vars


-----------------------------------------------------------------------------
(* A session of calls *)
(***************************************************************************)
(* A caller holds raw records, one skill-frequency table and the classes   *)
(* (with HEADERS and the lookup tables as class attributes), and makes     *)
(* init_empty_row and transform_row calls one after another on them.       *)
(***************************************************************************)

MaxCalls == 3

\* the caller's records, by name, and the class each is given to
SessionRecords ==
    [jobsbank |-> [cls |-> "JobsbankTransformer", row |-> JobsbankFull],
     fewskills |->
        [cls |-> "JobsbankTransformer",
         row |-> [JobsbankFull EXCEPT !.skills = FirstSkills(3)]],
     nouuid |->
        [cls |-> "JobsbankTransformer", row |-> Without(JobsbankFull, "uuid")],
     fastjobs |-> [cls |-> "FastjobsTransformer", row |-> FastjobsFull],
     jobscentral |-> [cls |-> "JobscentralTransformer", row |-> JobscentralFull],
     base |-> [cls |-> "Transformer", row |-> JobsbankFull]]

RecordsOf(cls) == {k \in DOMAIN SessionRecords : SessionRecords[k].cls = cls}

SessionObjects ==
    [HEADERS |-> HEADERS,
     jobscentral_education |-> jobscentral_education,
     jobscentral_experience |-> jobscentral_experience,
     skill_count |-> SkillCounts,
     records |-> [k \in DOMAIN SessionRecords |-> SessionRecords[k].row]]

NotSeen == [first |-> NoRet, times |-> 0]

SessionInit ==
    /\ fn = "" /\ arg = "" /\ pc = "call"
    /\ ret = NoRet
    /\ objects = SessionObjects
    /\ rows = NoRows
    /\ seen = [k \in DOMAIN SessionRecords |-> NotSeen]

\* transform.py line 79, row = OrderedDict(): a new object, unlike every
\* object made before
NewRow(made) == made + 1

\* the row objects after a call that made `made` new objects and returned the
\* object `last` (0: no row returned)
RowsAfter(made, last) ==
    [calls |-> rows.calls + 1, made |-> rows.made + made, last |-> last,
     returned |-> rows.returned \cup (IF rows.last = 0 THEN {} ELSE {rows.last})]

\* the first result of record k, and how many times k was transformed
SeenAfter(k, result) ==
    [seen EXCEPT ![k] = IF @.times = 0 THEN [first |-> result, times |-> 1]
                        ELSE [@ EXCEPT !.times = @ + 1]]

Session_init_empty_row ==
    \E cls \in Classes :
        /\ rows.calls < MaxCalls
        /\ fn' = "init_empty_row" /\ arg' = cls /\ pc' = "done"
        /\ ret' = Returned(init_empty_row(cls))
        /\ rows' = RowsAfter(1, NewRow(rows.made))
        /\ UNCHANGED <<objects, seen>>

\* Transformer.transform_row is `pass`: no row is made
Session_Transformer_transform_row ==
    \E k \in RecordsOf("Transformer") :
        /\ rows.calls < MaxCalls
        /\ fn' = "Transformer.transform_row" /\ arg' = k /\ pc' = "done"
        /\ ret' = Transformer_transform_row(objects.records[k])
        /\ rows' = RowsAfter(0, 0)
        /\ seen' = SeenAfter(k, ret')
        /\ UNCHANGED objects

\* each transform_row of a source starts with new_row = cls.init_empty_row()
\* and returns new_row unless a later line raises
Session_JobsbankTransformer_transform_row ==
    \E k \in RecordsOf("JobsbankTransformer") :
        /\ rows.calls < MaxCalls
        /\ fn' = "JobsbankTransformer.transform_row" /\ arg' = k /\ pc' = "done"
        /\ ret' = JobsbankTransformer_transform_row(objects.records[k],
                                                    objects.skill_count)
        /\ objects' = [objects EXCEPT
                          !.skill_count =
                              JobsbankSkillCountAfter(objects.records[k], @)]
        /\ rows' = RowsAfter(1, IF ret'.exc = "" THEN NewRow(rows.made) ELSE 0)
        /\ seen' = SeenAfter(k, ret')

Session_FastjobsTransformer_transform_row ==
    \E k \in RecordsOf("FastjobsTransformer") :
        /\ rows.calls < MaxCalls
        /\ fn' = "FastjobsTransformer.transform_row" /\ arg' = k /\ pc' = "done"
        /\ ret' = FastjobsTransformer_transform_row(objects.records[k])
        /\ rows' = RowsAfter(1, IF ret'.exc = "" THEN NewRow(rows.made) ELSE 0)
        /\ seen' = SeenAfter(k, ret')
        /\ UNCHANGED objects

Session_JobscentralTransformer_transform_row ==
    \E k \in RecordsOf("JobscentralTransformer") :
        /\ rows.calls < MaxCalls
        /\ fn' = "JobscentralTransformer.transform_row" /\ arg' = k /\ pc' = "done"
        /\ ret' = JobscentralTransformer_transform_row(objects.records[k])
        /\ rows' = RowsAfter(1, IF ret'.exc = "" THEN NewRow(rows.made) ELSE 0)
        /\ seen' = SeenAfter(k, ret')
        /\ UNCHANGED objects

SessionNext ==
    \/ Session_init_empty_row
    \/ Session_Transformer_transform_row
    \/ Session_JobsbankTransformer_transform_row
    \/ Session_FastjobsTransformer_transform_row
    \/ Session_JobscentralTransformer_transform_row

SessionSpec == SessionInit /\ [][SessionNext]_vars

-----------------------------------------------------------------------------
(* Properties *)

Done(name) == pc = "done" /\ fn = name

\* the first value of order that list holds, "none" when it holds none
FirstPresent(order, list) ==
    LET present == {i \in 1..Len(order) : InList(order[i], list)}
    IN  IF present = {} THEN "none" ELSE order[SetMin(present)]

(* Years of experience *)

YearAnchors == <<<<"y", "e", "a", "r", " ", "e", "x", "p", "e", "r", "i", "e", "n", "c", "e">>, <<"y", "e", "a", "r", "s", " ", "e", "x", "p", "e", "r", "i", "e", "n", "c", "e">>>>

\* the 0-based positions at which an anchor phrase starts
AnchorPositions(description) ==
    UNION {Occurrences(StrLower(description), YearAnchors[a]) :
             a \in 1..Len(YearAnchors)}

\* the position of the anchor of a description that has exactly one
TheAnchor(description) == CHOOSE p \in AnchorPositions(description) : TRUE

\* exactly one anchor, with one space and then a word right before it
WordThenAnchor(description) ==
    LET anchors == AnchorPositions(description)
        p       == CHOOSE q \in anchors : TRUE
    IN  /\ Cardinality(anchors) = 1
        /\ p >= 2
        /\ description[p] = " "
        /\ description[p - 1] \notin SpaceChars

\* that word: the run of non-space characters that ends before the space
WordBeforeAnchor(description) ==
    LET end    == TheAnchor(description) - 1
        spaces == {j \in 1..end : description[j] \in SpaceChars}
    IN  SubSeq(description, IF spaces = {} THEN 1 ELSE SetMax(spaces) + 1, end)

NumberWordList ==
    <<<<"o", "n", "e">>, <<"t", "w", "o">>, <<"t", "h", "r", "e", "e">>, <<"f", "o", "u", "r">>, <<"f", "i", "v", "e">>, <<"s", "i", "x">>,
      <<"s", "e", "v", "e", "n">>, <<"e", "i", "g", "h", "t">>, <<"n", "i", "n", "e">>>>

\* one -> 1, ..., nine -> 9
NumberWordValue(w) == CHOOSE n \in 1..Len(NumberWordList) : NumberWordList[n] = w

IsRangeWord(w) ==
    /\ Len(SplitOn(w, "-")) = 2
    /\ IsDigitStr(SplitOn(w, "-")[1])
    /\ IsDigitStr(SplitOn(w, "-")[2])

\* C1: when the anchor phrase of a description is preceded, after one space,
\* by a number word one..nine, get_minimum_years_experience returns the
\* word's value (one -> 1, ..., nine -> 9).
C1_NumberWordGivesItsValue ==
    (Done("get_minimum_years_experience")
        /\ WordThenAnchor(arg)
        /\ InList(WordBeforeAnchor(arg), NumberWordList))
    => ret = Returned(PyInt(NumberWordValue(WordBeforeAnchor(arg))))

\* C2: every value get_money returns is -1 or at least 100; "50", "$50",
\* "$99.99" and the range "$50-99" (mean 74) give -1, "$3,000" gives 3000,
\* "5k" gives 5000 and "abc" gives -1.
C2_MoneyIsSentinelOrAtLeast100 ==
    (Done("get_money") /\ ret.exc = "")
    => /\ ret.val = -1 \/ ret.val >= 100
       /\ arg \in {<<"5", "0">>, <<"$", "5", "0">>, <<"$", "9", "9", ".", "9", "9">>, <<"$", "5", "0", "-", "9", "9">>, <<"a", "b", "c">>}
             => ret.val = -1
       /\ arg = <<"$", "3", ",", "0", "0", "0">> => ret.val = 3000
       /\ arg = <<"5", "k">> => ret.val = 5000

\* an amount under 100 was parsed and then rejected by the filter
C2_Witness ==
    /\ Done("get_money")
    /\ arg = <<"$", "9", "9", ".", "9", "9">>
    /\ GetMoneyAmount(arg) = Returned(99)
    /\ ret = Returned(-1)

LowestFirst == <<PRIMARY_SECONDARY, PRIMARY, SECONDARY, ITE, DIPLOMA, DEGREE>>

HighestFirst == <<DEGREE, DIPLOMA, ITE, PRIMARY_SECONDARY, SECONDARY, PRIMARY>>

\* C4: get_lowest_qualification returns the first value present scanning
\* primary/secondary, primary, secondary, ITE, diploma, degree, and
\* get_highest_qualification the first present scanning degree, diploma, ITE,
\* primary/secondary, secondary, primary; both return "none" for an empty list
\* and for a list without a recognised value.
C4_QualificationPriority ==
    /\ Done("get_lowest_qualification")
          => ret = Returned(FirstPresent(LowestFirst, arg))
    /\ Done("get_highest_qualification")
          => ret = Returned(FirstPresent(HighestFirst, arg))

\* a list that holds both "primary" and "primary/secondary", in that order
C4_Witness ==
    /\ Done("get_lowest_qualification")
    /\ arg = <<DEGREE, PRIMARY, PRIMARY_SECONDARY>>
    /\ ret = Returned(PRIMARY_SECONDARY)

(* Shift work *)

\* a token that holds a fuzzy indicator or ends in "am" or "pm"
IsShiftIndicator(token) ==
    \/ \E a \in 1..Len(fuzzy_anchors) : StrIn(fuzzy_anchors[a], token)
    \/ \E a \in 1..Len(end_anchors) : EndsWith(token, end_anchors[a])

ShiftTokens(description) == SplitWs(StrLower(description))

\* the 1-based indices of the tokens that hold "shift"
ShiftPositions(tokens) == {i \in 1..Len(tokens) : StrIn(<<"s", "h", "i", "f", "t">>, tokens[i])}

\* some "shift" token has an indicator from before tokens before it through
\* after tokens after it
IndicatorNearShift(tokens, before, after) ==
    \E i \in ShiftPositions(tokens) :
        \E j \in 1..Len(tokens) :
            /\ i - before <= j /\ j <= i + after
            /\ IsShiftIndicator(tokens[j])

\* C5 as stated: is_shift is true iff an indicator lies from 3 tokens before
\* through 4 tokens after a "shift" token, or two tokens hold "shift".
C5_WindowThreeBeforeFourAfter ==
    Done("is_shift")
    => LET tokens == ShiftTokens(arg)
       IN  ret.val <=> (\/ IndicatorNearShift(tokens, 3, 4)
                        \/ Cardinality(ShiftPositions(tokens)) >= 2)

\* C5: is_shift is true iff an indicator lies from 3 tokens before through
\* 3 tokens after a "shift" token (a window of 7 tokens), or at least two
\* tokens hold "shift"; an indicator 4 tokens after a sole "shift" token, with
\* none nearer, gives false.
C5_WindowThreeBeforeThreeAfter ==
    Done("is_shift")
    => LET tokens == ShiftTokens(arg)
       IN  /\ ret.exc = ""
           /\ ret.val <=> (\/ IndicatorNearShift(tokens, 3, 3)
                           \/ Cardinality(ShiftPositions(tokens)) >= 2)
           /\ (/\ Cardinality(ShiftPositions(tokens)) = 1
               /\ IndicatorNearShift(tokens, 3, 4)
               /\ ~IndicatorNearShift(tokens, 3, 3)) => ret.val = FALSE

\* the indicator "night" is the fourth token after the only "shift" token
C5_Witness ==
    /\ Done("is_shift")
    /\ arg = <<"S", "h", "i", "f", "t", " ", "t", "h", "e", " ", "t", "h", "e", " ", "t", "h", "e", " ", "n", "i", "g", "h", "t">>
    /\ IndicatorNearShift(ShiftTokens(arg), 3, 4)
    /\ ret = Returned(FALSE)

(* Canonical rows *)

\* the HEADERS list that the unit tests compare the keys with
ExpectedHeaders ==
    <<"source_id", "title", "uen", "company_name", "minimum_qualification",
      "experience_level", "minimum_years_experience", "num_vacancies",
      "salary_max", "salary_min", "salary_avg", "ssoc", "date_posted",
      "date_expire", "date_last_seen", "source", "description",
      "is_engineering", "is_employment_agency", "is_gig", "top_skill_1",
      "top_skill_2", "top_skill_3", "top_skill_4", "top_skill_5">>

RowCalls ==
    {"JobsbankTransformer.transform_row", "FastjobsTransformer.transform_row",
     "JobscentralTransformer.transform_row"}

\* a transform_row call that returned a row
ReturnedRow(name) == Done(name) /\ ret.exc = ""

\* C6: the keys of init_empty_row() of every class, and of every row that a
\* transform_row returns, are the 25 header fields in their fixed order.
C6_KeySchema ==
    /\ Len(ExpectedHeaders) = 25
    /\ Done("init_empty_row") => Keys(ret.val) = ExpectedHeaders
    /\ \A name \in RowCalls :
          ReturnedRow(name) => Keys(ret.val) = ExpectedHeaders

\* a Jobsbank row whose salary, company and skill fields were all assigned
C6_Witness ==
    /\ ReturnedRow("JobsbankTransformer.transform_row")
    /\ GetItem(ret.val, "salary_max") = PyInt(7000)
    /\ GetItem(ret.val, "uen") = PyStr("200012345K")
    /\ GetItem(ret.val, "top_skill_5") # PyInt(0)
    /\ Keys(ret.val) = ExpectedHeaders

TopSkillKeys ==
    <<"top_skill_1", "top_skill_2", "top_skill_3", "top_skill_4", "top_skill_5">>

\* C7: a record that carries every required field is transformed without
\* error, and a field it supplies no data for holds the default of
\* init_empty_row: Jobsbank ssoc is 0 without 'ssocCode' and top_skill_k is 0
\* with fewer than k skills; Fastjobs uen and company_name are None when
\* absent.
C7_MissingOptionalDataGivesDefaults ==
    /\ (Done("JobsbankTransformer.transform_row")
           /\ JobsbankRequired \subseteq DOMAIN arg.row)
       => /\ ret.exc = ""
          /\ "ssocCode" \notin DOMAIN arg.row
                => GetItem(ret.val, "ssoc") = PyInt(0)
          /\ \A k \in 1..5 :
                Len(arg.row.skills) < k
                   => GetItem(ret.val, TopSkillKeys[k]) = PyInt(0)
    /\ (Done("FastjobsTransformer.transform_row")
           /\ FastjobsRequired \subseteq DOMAIN arg)
       => /\ ret.exc = ""
          /\ "uen" \notin DOMAIN arg => GetItem(ret.val, "uen") = PyNone
          /\ "hiringOrganization" \notin DOMAIN arg
                => GetItem(ret.val, "company_name") = PyNone

(* Salaries *)

\* an amount of 'payHighLow': digits with thousands commas
PayAmounts == {a \in JobscentralAmounts : IsDigitStr(RemoveChar(a, ","))}

AmountValue(a) == DigitsToInt(RemoveChar(a, ","))

MonthlyRange(lo, hi) == lo \o <<" ", "-", " ">> \o hi \o <<" ", "S", "G", "D", " ", "/", " ", "M", "o", "n", "t", "h">>

\* C8: for a 'payHighLow' of the form 'L - H <unit>' JobscentralTransformer
\* get_money returns (L, H), a single value V gives (V, V), and transform_row
\* gives salary_min L, salary_max H and salary_avg floor((L+H)/2).
C8_JobscentralSalaryRange ==
    \A lo \in PayAmounts, hi \in PayAmounts :
       /\ Done("JobscentralTransformer.get_money")
             => /\ arg = MonthlyRange(lo, hi)
                     => ret = Returned(<<AmountValue(lo), AmountValue(hi)>>)
                /\ arg = lo => ret = Returned(<<AmountValue(lo), AmountValue(lo)>>)
       /\ (Done("JobscentralTransformer.transform_row")
              /\ JobscentralRequired \subseteq DOMAIN arg
              /\ arg.payHighLow = MonthlyRange(lo, hi))
          => /\ ret.exc = ""
             /\ GetItem(ret.val, "salary_min") = PyInt(AmountValue(lo))
             /\ GetItem(ret.val, "salary_max") = PyInt(AmountValue(hi))
             /\ GetItem(ret.val, "salary_avg")
                   = PyInt((AmountValue(lo) + AmountValue(hi)) \div 2)

\* the bound of a Jobsbank 'salary' dict under key, 0 when it gives none
JobsbankBound(row, key) == Get(Get(row, "salary", <<>>), key, 0)

\* C9: in a returned row salary_avg is (salary_min + salary_max)/2 when the
\* source gives both bounds, and when it gives one bound only, salary_avg and
\* the reported bound are that bound.
C9_SalaryTripleRule ==
    /\ ReturnedRow("JobsbankTransformer.transform_row")
       => LET minimum == JobsbankBound(arg.row, "minimum")
              maximum == JobsbankBound(arg.row, "maximum")
              avg     == GetItem(ret.val, "salary_avg")
          IN  /\ (minimum # 0 /\ maximum # 0)
                    => /\ GetItem(ret.val, "salary_min") = PyInt(minimum)
                       /\ GetItem(ret.val, "salary_max") = PyInt(maximum)
                       /\ NumEq(avg, PyHalf(minimum + maximum))
              /\ (minimum = 0 /\ maximum # 0)
                    => /\ GetItem(ret.val, "salary_max") = PyInt(maximum)
                       /\ NumEq(avg, PyInt(maximum))
              /\ (minimum # 0 /\ maximum = 0)
                    => /\ GetItem(ret.val, "salary_min") = PyInt(minimum)
                       /\ NumEq(avg, PyInt(minimum))
    /\ (ReturnedRow("FastjobsTransformer.transform_row")
           /\ "baseSalary" \notin DOMAIN arg
           /\ Get(arg, "min_salary", 0) # 0)
       => /\ GetItem(ret.val, "salary_min") = PyInt(arg.min_salary)
          /\ GetItem(ret.val, "salary_avg") = PyInt(arg.min_salary)

(* Experience level *)

LevelPriority == <<ENTRY, MANAGER, PROFESSIONAL, EXECUTIVE>>

\* the levels that map_position gives the positionLevels of a Jobsbank record
MappedLevels(row) ==
    [i \in 1..Len(row.positionLevels) |->
        JobsbankTransformer_map_position(row.positionLevels[i].position)]

\* C10: the experience_level of a Jobsbank row is the first of entry, manager,
\* professional, executive among the mapped positionLevels ("none" when there
\* are none), except that "entry" becomes "executive" exactly when the row's
\* minimum_years_experience >= 3 or its salary_avg > 5000.
C10_JobsbankExperienceLevel ==
    ReturnedRow("JobsbankTransformer.transform_row")
    => LET level == FirstPresent(LevelPriority, MappedLevels(arg.row))
           years == GetItem(ret.val, "minimum_years_experience")
           avg   == GetItem(ret.val, "salary_avg")
           senior == \/ years.num >= 3 * years.den
                     \/ avg.num > 5000 * avg.den
       IN  GetItem(ret.val, "experience_level")
              = PyStr(IF level = ENTRY /\ senior THEN EXECUTIVE ELSE level)

\* an entry level with 2 years raised to executive by the salary_avg 5000.5
C10_Witness ==
    /\ ReturnedRow("JobsbankTransformer.transform_row")
    /\ FirstPresent(LevelPriority, MappedLevels(arg.row)) = ENTRY
    /\ GetItem(ret.val, "minimum_years_experience") = PyInt(2)
    /\ GetItem(ret.val, "salary_avg") = [t |-> "float", num |-> 10001, den |-> 2]
    /\ GetItem(ret.val, "experience_level") = PyStr(EXECUTIVE)

-----------------------------------------------------------------------------
\* C11: in a session of init_empty_row and transform_row calls, a record that
\* is transformed again gives the result it gave the first time; the raw
\* records, the caller's skill-frequency table, HEADERS and the lookup tables
\* are as they were at the start; and a returned row is an object that no
\* earlier call returned.
TransformCalls ==
    {"Transformer.transform_row", "JobsbankTransformer.transform_row",
     "FastjobsTransformer.transform_row", "JobscentralTransformer.transform_row"}

C11_SessionDeterminism ==
    /\ objects = SessionObjects
    /\ (pc = "done" /\ fn \in TransformCalls) => ret = seen[arg].first
    /\ (pc = "done" /\ rows.last # 0) =>
          /\ rows.last \notin rows.returned
          /\ rows.last = rows.made

\* the full Jobsbank record is transformed a second time, after another call,
\* and a row is returned
C11_Witness ==
    /\ pc = "done" /\ fn = "JobsbankTransformer.transform_row"
    /\ arg = "jobsbank"
    /\ seen["jobsbank"].times = 2
    /\ rows.calls = 3
    /\ ret.exc = "" /\ ret = seen["jobsbank"].first
    /\ Cardinality(rows.returned) = 2

-----------------------------------------------------------------------------
\* C12: get_industry_mapping gives a 4-character code the result of its
\* zero-padded 5-character form; the result is the 2015-table entry of the
\* (padded) code if the 2015 table has one, else its 2010-table entry, else the
\* fallback-table entry of its first two characters, else (None, None, None).
ZeroPadded(ssic) == IF Len(ssic) = 4 THEN <<"0">> \o ssic ELSE ssic

\* the rows of a table file (after its header) with `key` in column `col`
\* (1-based), stripped of spaces around it or not
RowsWith(file, col, key, stripped) ==
    {i \in 2..Len(file) :
        key = IF stripped THEN StrStrip(file[i][col]) ELSE file[i][col]}

\* the (sector, industry, subindustry) of the last such row; `at` is the column
\* of the sector
TableEntry(file, col, key, stripped, at) ==
    LET r == file[SetMax(RowsWith(file, col, key, stripped))]
    IN  <<PyText(r[at]), PyText(r[at + 1]), PyText(r[at + 2])>>

LookupChain(ssic, mappings, fallback) ==
    LET code == ZeroPadded(ssic)
        prefix == SubSeq(code, 1, IF Len(code) < 2 THEN Len(code) ELSE 2)
    IN  IF code # <<>> /\ RowsWith(mappings, 5, code, FALSE) # {}
        THEN TableEntry(mappings, 5, code, FALSE, 1)
        ELSE IF code # <<>> /\ RowsWith(mappings, 4, code, FALSE) # {}
        THEN TableEntry(mappings, 4, code, FALSE, 1)
        ELSE IF RowsWith(fallback, 1, prefix, TRUE) # {}
        THEN TableEntry(fallback, 1, prefix, TRUE, 2)
        ELSE <<PyNone, PyNone, PyNone>>

C12_IndustryLookupChain ==
    Done("get_industry_mapping") =>
        /\ ret = Returned(LookupChain(arg.ssic, arg.mappings, arg.fallback))
        /\ Len(arg.ssic) = 4 =>
              ret.val = LookupChain(<<"0">> \o arg.ssic, arg.mappings, arg.fallback)

\* the 4-character code 1111 is found, as 01111, in the 2015 table, where the
\* 2010 table has 01111 too, under another sector
C12_Witness ==
    /\ Done("get_industry_mapping")
    /\ arg.ssic = <<"1", "1", "1", "1">>
    /\ RowsWith(arg.mappings, 4, <<"0", "1", "1", "1", "1">>, FALSE) # {}
    /\ RowsWith(arg.mappings, 5, <<"0", "1", "1", "1", "1">>, FALSE) # {}
    /\ ret = Returned(<<PyText(<<"B">>), PyText(<<"I", "n", "d", "u", "s", "t", "r", "y">>), PyText(<<"S", "u", "b">>)>>)

-----------------------------------------------------------------------------
\* C13: for skills whose ids index the table, sort_skills returns one record
\* per input skill, with confidence raw_confidence / (skill_count[id] + 1), in
\* non-increasing order of that confidence, and leaves skills and skill_count
\* as they were; get_top_skills(list, n) returns the empty list for n < 0, the
\* whole list for n > len(list), and the first n elements in their order
\* otherwise.
Normalized(skill, skill_count) ==
    [id |-> skill.id, skill |-> skill.skill,
     confidence |-> [num |-> skill.confidence, den |-> skill_count[skill.id + 1] + 1]]

Orderings(n) == {p \in [1..n -> 1..n] : \A i, j \in 1..n : p[i] = p[j] => i = j}

IdsInTable(skills, skill_count) ==
    \A i \in 1..Len(skills) : skills[i].id \in 0..(Len(skill_count) - 1)

NonIncreasing(list) ==
    \A i, j \in 1..Len(list) :
        i < j => list[i].confidence.num * list[j].confidence.den
                    >= list[j].confidence.num * list[i].confidence.den

C13_SkillRanking ==
    /\ (Done("sort_skills") /\ IdsInTable(arg.skills, arg.skill_count)) =>
          /\ ret.exc = ""
          /\ Len(ret.val) = Len(arg.skills)
          /\ \E p \in Orderings(Len(arg.skills)) :
                \A i \in 1..Len(arg.skills) :
                    ret.val[i] = Normalized(arg.skills[p[i]], arg.skill_count)
          /\ NonIncreasing(ret.val)
          /\ objects = arg
    /\ Done("get_top_skills") =>
          /\ ret.exc = ""
          /\ arg.n < 0 => ret.val = <<>>
          /\ arg.n > Len(arg.skills) => ret.val = arg.skills
          /\ arg.n \in 0..Len(arg.skills) =>
                /\ Len(ret.val) = arg.n
                /\ \A i \in 1..arg.n : ret.val[i] = arg.skills[i]
          /\ objects = arg

\* three skills that sort_skills has to reorder, two of them with the same
\* normalized confidence (60 / 3 and 20 / 1)
C13_Witness ==
    /\ Done("sort_skills")
    /\ arg.skill_count = <<2, 1, 0>>
    /\ Len(arg.skills) = 3
    /\ arg.skills[1].id = 0 /\ arg.skills[1].confidence = 60
    /\ arg.skills[2].id = 2 /\ arg.skills[2].confidence = 20
    /\ arg.skills[3].id = 1 /\ arg.skills[3].confidence = 60
    /\ ret.exc = "" /\ ret.val[1].id = 1 /\ ret.val[2].id = 0 /\ ret.val[3].id = 2

-----------------------------------------------------------------------------
\* C14: get_money returns a value for every token, -1 when the numeral it
\* captured has more than one decimal point, and get_salary returns an integer
\* for every description: neither raises.
TwoPointTokens == {<<"$", "1", ".", "2", ".", "3">>, <<"1", ".", "2", ".", "3", "k">>}

C14_HeuristicsNeverRaise ==
    /\ Done("get_money") =>
          /\ ret.exc = ""
          /\ arg \in TwoPointTokens => ret.val = -1
    /\ Done("get_salary") => ret.exc = "" /\ ret.val \in Nat

-----------------------------------------------------------------------------
\* C15: for a token 'X-Y' with one hyphen, get_money returns (after its
\* filter) the rounded-down mean of the two amounts if both sides parse as
\* money tokens, an amount of 0 included; the rounded-down mean of the amount
\* and the numeral if one side parses and the other is a bare numeral; and -1
\* if neither side parses.
\* The amount of a side that parses as a money token, else -1 (a side that is
\* empty or ends in '$' is no money token).
SideAmount(side) ==
    LET word == StrStrip(StrLower(side))
    IN  IF StrRFind(word, <<"$">>) = Len(word) - 1 THEN -1
        ELSE get_money_from_single_word(side).val

RangeSidesRaise(token) ==
    \E side \in {SplitOn(token, "-")[1], SplitOn(token, "-")[2]} :
        get_money_from_single_word(side).exc # ""

\* what the range form is to return, with `least` the least amount that counts
\* as parsed; -2 where the statement says nothing
RangeFormResult(token, least) ==
    LET x == SplitOn(token, "-")[1]
        y == SplitOn(token, "-")[2]
        a == SideAmount(x)
        b == SideAmount(y)
        mean(p, q) == filter_money((p + q) \div 2)
    IN  IF a >= least /\ b >= least THEN mean(a, b)
        ELSE IF a >= least /\ get_numeric(y) >= least THEN mean(a, get_numeric(y))
        ELSE IF b >= least /\ get_numeric(x) >= least THEN mean(get_numeric(x), b)
        ELSE IF a < least /\ b < least THEN -1
        ELSE -2

C15_RangeFormZeroIncluded ==
    (/\ Done("get_money")
     /\ Len(SplitOn(arg, "-")) = 2
     /\ ~RangeSidesRaise(arg)
     /\ RangeFormResult(arg, 0) # -2) =>
        ret = Returned(RangeFormResult(arg, 0))

\* What holds of the code: a side counts as parsed, and a numeral as a
\* numeral, only with an amount above 0.
C15_RangeFormAboveZero ==
    (/\ Done("get_money")
     /\ Len(SplitOn(arg, "-")) = 2
     /\ ~RangeSidesRaise(arg)
     /\ RangeFormResult(arg, 1) # -2) =>
        ret = Returned(RangeFormResult(arg, 1))

-----------------------------------------------------------------------------
\* C16: when get_salary(description, minimum) returns, each token containing
\* 'salary' has contributed at most one amount, that of the first token among
\* the five before it through the five after it that get_money parses,
\* averaged (rounded down) with the token two positions later if that token is
\* in the window and parses too; the result is the rounded-down mean of the
\* contributions that are at least minimum, or 0 without any; so it is 0 or at
\* least 100 and at least minimum.
SalaryTokens == SplitWs(StrLower(arg.description))

\* the amount get_money parses from token j (0-based), else -1
ParsedMoney(tokens, j) ==
    LET m == get_money(tokens[j + 1])
    IN  IF m.exc = "" THEN m.val ELSE -1

\* the tokens in the window of token i
SalaryWindow(tokens, i) == {j \in (i - 5)..(i + 5) : j \in 0..(Len(tokens) - 1)}

\* what the 'salary' token i contributes, -1 for nothing
Contribution(tokens, i) ==
    LET hits == {j \in SalaryWindow(tokens, i) : ParsedMoney(tokens, j) >= 0}
        j    == SetMin(hits)
    IN  IF hits = {} THEN -1
        ELSE IF j + 2 \in SalaryWindow(tokens, i) /\ ParsedMoney(tokens, j + 2) >= 0
        THEN (ParsedMoney(tokens, j) + ParsedMoney(tokens, j + 2)) \div 2
        ELSE ParsedMoney(tokens, j)

\* [count, sum] of the contributions of all 'salary' tokens that are at least
\* minimum
Contributions(tokens, minimum) ==
    LET own(i) == IF StrIn(<<"s", "a", "l", "a", "r", "y">>, tokens[i + 1]) THEN Contribution(tokens, i) ELSE -1
        kept(i) == own(i) >= 0 /\ own(i) >= minimum
        acc[k \in 0..Len(tokens)] ==
            IF k = 0 THEN [count |-> 0, sum |-> 0]
            ELSE IF kept(k - 1)
                 THEN [count |-> acc[k - 1].count + 1, sum |-> acc[k - 1].sum + own(k - 1)]
                 ELSE acc[k - 1]
    IN  acc[Len(tokens)]

C16_SalaryFromWindows ==
    (Done("get_salary") /\ ret.exc = "") =>
        LET c == Contributions(SalaryTokens, arg.minimum)
        IN  /\ ret.val = IF c.count = 0 THEN 0 ELSE c.sum \div c.count
            /\ ret.val = 0 \/ (ret.val >= 100 /\ ret.val >= arg.minimum)

\* two 'salary' tokens with different windows contribute 3000 and 5001
C16_Witness ==
    /\ Done("get_salary")
    /\ arg.description = <<"s", "a", "l", "a", "r", "y", " ", "$", "3", "0", "0", "0", " ", "a", " ", "b", " ", "c", " ", "d", " ", "e", " ", "s", "a", "l", "a", "r", "y", " ", "$", "5", "0", "0", "1">>
    /\ arg.minimum = 0
    /\ ret = Returned(4000)

-----------------------------------------------------------------------------
\* C17: get_education reports 'primary' (resp. 'secondary') if and only if a
\* token contains the anchor and, for the first such token i, no token from
\* i - 2 through the last token of the window contains a complement word; later
\* tokens with the anchor are not consulted.  The claim has the window end at
\* i + 3, so that a complement word exactly 3 tokens after the first anchor
\* token vetoes; in the code it ends at i + 2.
EducationTokens == SplitWs(StrLower(arg))

HasComplement(token) == \E c \in 1..Len(complements) : StrIn(complements[c], token)

\* no complement word from 2 tokens before through `after` tokens after the
\* first token with the anchor
FirstAnchorClear(tokens, anchor, after) ==
    LET with == {i \in 1..Len(tokens) : StrIn(anchor, tokens[i])}
        i    == SetMin(with)
    IN  /\ with # {}
        /\ \A j \in (i - 2)..(i + after) :
              j \in 1..Len(tokens) => ~HasComplement(tokens[j])

AnchorVeto(after) ==
    Done("get_education") =>
        /\ InList(PRIMARY, ret.val)
              <=> FirstAnchorClear(EducationTokens, <<"p", "r", "i", "m", "a", "r", "y">>, after)
        /\ InList(SECONDARY, ret.val)
              <=> FirstAnchorClear(EducationTokens, <<"s", "e", "c", "o", "n", "d", "a", "r", "y">>, after)

C17_VetoThroughThreeAfter == AnchorVeto(3)

C17_VetoThroughTwoAfter == AnchorVeto(2)

\* a complement word exactly 3 tokens after the only 'primary' token, and
\* 'primary' is reported
C17_Witness ==
    /\ Done("get_education")
    /\ arg = <<"p", "r", "i", "m", "a", "r", "y", " ", "t", "h", "e", " ", "t", "h", "e", " ", "d", "u", "t", "i", "e", "s">>
    /\ ret = Returned(<<PRIMARY>>)

-----------------------------------------------------------------------------
\* C18: the experience_level of a Jobscentral row is the first of entry,
\* manager, professional, executive among the levels of ALL the codes of the
\* 'position' string that jobscentral_experience maps, whatever their order and
\* whatever unmapped codes stand beside them ("0,4", "4,0" and "0,9" give
\* "entry"), and "none" only when no code maps.
PositionLevels(position) ==
    LET codes == SplitOn(position, ",")
    IN  SelectSeq([i \in 1..Len(codes) |-> DictGet(jobscentral_experience, codes[i], "")],
                  LAMBDA level : level # "")

C18_JobscentralExperienceLevel ==
    ReturnedRow("JobscentralTransformer.transform_row") =>
        /\ GetItem(ret.val, "experience_level")
              = PyStr(FirstPresent(LevelPriority, PositionLevels(arg.position)))
        /\ arg.position \in {<<"0", ",", "4">>, <<"4", ",", "0">>, <<"0", ",", "9">>} =>
              GetItem(ret.val, "experience_level") = PyStr(ENTRY)

=============================================================================
